---- MODULE Spec2Model ----
(***************************************************************************)
(* Model of the session and caching engine of steam_bot:                   *)
(*   - steam.TTLCache (generic bounded TTL cache, shared by concurrent     *)
(*     callers),                                                           *)
(*   - the sent-posts dedup tracker and the deals routine of package bot,  *)
(*   - processSearchResults (bounded-concurrency fan-out),                 *)
(*   - HandleCallbackQuery (callback token decoding, authorization and     *)
(*     dispatch).                                                          *)
(* Each component has its own specification over the shared variables; the *)
(* variables of the other components stay at their initial values.         *)
(***************************************************************************)
EXTENDS Integers, Sequences, FiniteSets, TLC

\* ------------------------------------------------------------------------
\* Bounds of the model

\* the clock runs from 0 to MaxTime
MaxTime == 2

\* ------------------------------------------------------------------------
\* TTLCache configuration (scaled: the program's instance uses
\* ttl = 15 min, maxSize = 200, cleanupN = 50)

ttl == 1
maxSize == 2
cleanupN == 1

\* the keys, the values and the concurrent callers of the cache
Keys == {"a", "b", "c"}
Values == {"v1", "v2"}
Callers == {"c1", "c2"}
\* the zero value of V
Zero == "zero"
NoCaller == "nobody"
NoKey == "nokey"

VARIABLES
  data,     \* TTLCache.data: key -> CacheEntry, a function on the keys present
  now,      \* the wall clock read by time.Now()
  caller,   \* per caller of the cache: position and locals of its current call
  ev,       \* the last step taken on the cache (what was called, what it returned)
  sentPosts, \* bot.sentPosts: deal ID -> time it was marked
  routine,  \* SendDealsRoutine: position, the deals of the poll, the loop index
  sent,     \* what the deals routine has done so far (deliveries, attempts, polls)
  fan,      \* processSearchResults: position, input, goroutines started, wg, sem
  task,     \* per goroutine of processSearchResults: its position
  inlineResults, \* processSearchResults: the result slice
  req,      \* the callback query being handled: its data, its sender, the cache before
  h,        \* HandleCallbackQuery: position, the decoded CallbackData, where to continue
  out,      \* what HandleCallbackQuery has done so far (answers, view built, calls, edits)
  serial    \* the GetOrFetch calls observed: the call of a run of calls made one
            \* after another, or two calls inside fetch() for one key at once
  ,mu       \* the two mutexes: TTLCache.mu and bot.sentPostsMu, with their holders

cacheVars == <<data, now, caller, ev>>
dedupVars == <<sentPosts, routine, sent>>
fanVars == <<fan, task, inlineResults>>
routerVars == <<req, h, out>>
vars == <<data, now, caller, ev, sentPosts, routine, sent, fan, task, inlineResults, req, h, out, serial, mu>>

\* ------------------------------------------------------------------------
\* Helpers on maps and sequences

Min(a, b) == IF a < b THEN a ELSE b

Size(d) == Cardinality(DOMAIN d)

Delete(d, k) == [x \in DOMAIN d \ {k} |-> d[x]]

Put(d, k, e) == [x \in DOMAIN d \cup {k} |-> IF x = k THEN e ELSE d[x]]

EmptyMap == <<>>

\* every order in which a range over a Go map with key set S may visit it
Perms(S) == {s \in [1..Cardinality(S) -> S] : \A i, j \in 1..Cardinality(S) : i # j => s[i] # s[j]}

Swap(s, i, j) == [s EXCEPT ![i] = s[j], ![j] = s[i]]

\* a sync.RWMutex nobody holds: w is the goroutine holding Lock, r the
\* goroutines holding RLock
Free == [w |-> NoCaller, r |-> {}]

\* the mutexes when no critical section is being run
NoLocks == [cache |-> Free, sentPosts |-> Free]

\* ------------------------------------------------------------------------
\* TTLCache

CacheEntry(v, t) == [Data |-> v, ExpiresAt |-> t]

NoEntry == [Data |-> Zero, ExpiresAt |-> -1]

\* (mutant) an entry counts as expired one tick late
ExpiredLate(e, t) == t > e.ExpiresAt + 1

\* time.Now().After(entry.ExpiresAt)
Expired(e, t) == t > e.ExpiresAt

\* (mutant) Set stores the entry without adding ttl
NewEntryNoTtl(v, t) == CacheEntry(v, t)

\* the entry Set stores: ExpiresAt = time.Now().Add(c.ttl)
NewEntry(v, t) == CacheEntry(v, t + ttl)

\* cleanupExpired: delete every entry with now.After(ExpiresAt)
cleanupExpired(d, t) == [k \in {x \in DOMAIN d : ~Expired(d[x], t)} |-> d[k]]

\* the inner loop of removeOldest's sort, j from its current value to the end
RECURSIVE SortInner(_, _, _, _)
SortInner(e, i, j, d) ==
  IF j > Len(e) THEN e
  ELSE SortInner(IF d[e[i]].ExpiresAt > d[e[j]].ExpiresAt THEN Swap(e, i, j) ELSE e,
                 i, j + 1, d)

\* the outer loop of removeOldest's sort, i from its current value to len-1
RECURSIVE SortOuter(_, _, _)
SortOuter(e, i, d) ==
  IF i > Len(e) - 1 THEN e
  ELSE SortOuter(SortInner(e, i, i + 1, d), i + 1, d)

\* (mutant) removeOldest deletes the first keys in map iteration order,
\* without sorting
oldestKeysUnsorted(d, entries) ==
  {entries[i] : i \in 1..Min(cleanupN, Len(entries))}

\* the keys removeOldest deletes, entries being the keys in map iteration order
oldestKeys(d, entries) ==
  LET sorted == SortOuter(entries, 1, d)
      removeCount == Min(cleanupN, Len(sorted))
  IN {sorted[i] : i \in 1..removeCount}

\* (mutant) removeOldest deletes every entry
removeOldestAll(d, entries) == [k \in {} |-> d[k]]

\* removeOldest: sort by ExpiresAt, delete the first min(cleanupN, len) keys
removeOldest(d, entries) ==
  LET gone == oldestKeys(d, entries)
  IN [k \in DOMAIN d \ gone |-> d[k]]

\* (mutant) Set evicts only when the map is over capacity
SetEvictOverOnly(d, t, entries) ==
  IF Size(d) > maxSize
  THEN LET d1 == cleanupExpired(d, t)
       IN IF Size(d1) > maxSize THEN removeOldest(d1, entries) ELSE d1
  ELSE d

\* the map after Set's cleanup (before the insertion)
SetEvict(d, t, entries) ==
  IF Size(d) >= maxSize
  THEN LET d1 == cleanupExpired(d, t)
       IN IF Size(d1) >= maxSize THEN removeOldest(d1, entries) ELSE d1
  ELSE d

\* the orders in which removeOldest may range over the map during Set
SetOrders(d, t) ==
  IF Size(d) >= maxSize /\ Size(cleanupExpired(d, t)) >= maxSize
  THEN Perms(DOMAIN cleanupExpired(d, t))
  ELSE {<<>>}

\* (mutant) Set of a key that is already present replaces the value and keeps
\* the expiry of the old entry
SetDataKeepsExpiry(d, k, v, t, entries) ==
  Put(SetEvict(d, t, entries), k,
      IF k \in DOMAIN d THEN CacheEntry(v, d[k].ExpiresAt) ELSE NewEntry(v, t))

\* the whole of Set, under c.mu.Lock()
SetData(d, k, v, t, entries) == Put(SetEvict(d, t, entries), k, NewEntry(v, t))

Idle == [pc |-> "idle", op |-> "none", key |-> NoKey, snap |-> NoEntry]

\* The record of one step on the cache: which call, by whom, on which key, the
\* value and ok flag it returned (or stored), the keys it removed, and whether
\* it directly follows the step it continues (chain):
\*   GetRead: the previous step was a Set of the same key;
\*   GetHit, GetExpired: the previous step was this caller's GetRead, itself chained;
\*   FetchErr: the previous step was this caller's miss on the same key.
Event(kind, p, k, v, ok, gone, chain) ==
  [kind |-> kind, p |-> p, key |-> k, val |-> v, ok |-> ok, evicted |-> gone,
   chain |-> chain]

\* Set(key, value) called directly
Set(p, k, v) ==
  /\ caller[p].pc = "idle"
  /\ \E entries \in SetOrders(data, now) :
       /\ data' = SetData(data, k, v, now, entries)
       /\ ev' = Event("Set", p, k, v, TRUE,
                      DOMAIN data \ DOMAIN SetEvict(data, now, entries), FALSE)
  /\ UNCHANGED <<now, caller>>

\* First half of Get: the read under RLock and the exists test.
\* op is "Get" for a direct call and "GetOrFetch" for the Get inside GetOrFetch.
GetRead(p, k, op) ==
  /\ caller[p].pc = "idle"
  /\ IF k \in DOMAIN data
     THEN /\ caller' = [caller EXCEPT ![p] = [pc |-> "get", op |-> op, key |-> k, snap |-> data[k]]]
          /\ ev' = Event("GetRead", p, k, Zero, FALSE, {},
                         ev.kind \in {"Set", "FetchSet"} /\ ev.key = k)
     ELSE /\ caller' = [caller EXCEPT ![p] =
                          IF op = "GetOrFetch"
                          THEN [pc |-> "fetch", op |-> op, key |-> k, snap |-> NoEntry]
                          ELSE Idle]
          /\ ev' = Event("GetAbsent", p, k, Zero, FALSE, {}, FALSE)
  /\ UNCHANGED <<data, now>>

\* (mutant) GetOrFetch ignores the ok of its Get: after a hit it goes on to
\* fetch() all the same
GetFinishRefetches(p) ==
  /\ caller[p].pc = "get"
  /\ LET c == caller[p] IN
     /\ data' = IF Expired(c.snap, now) THEN Delete(data, c.key) ELSE data
     /\ ev' = Event(IF Expired(c.snap, now) THEN "GetExpired" ELSE "GetHit", p, c.key,
                    IF Expired(c.snap, now) THEN Zero ELSE c.snap.Data,
                    ~Expired(c.snap, now), {}, FALSE)
     /\ caller' = [caller EXCEPT ![p] =
                     IF c.op = "GetOrFetch"
                     THEN [pc |-> "fetch", op |-> c.op, key |-> c.key, snap |-> NoEntry]
                     ELSE Idle]
  /\ UNCHANGED now

\* (mutant) a hit renews the entry: its expiry slides to ttl after the Get
GetFinishSliding(p) ==
  /\ caller[p].pc = "get"
  /\ LET c == caller[p] IN
     IF Expired(c.snap, now)
     THEN /\ data' = Delete(data, c.key)
          /\ ev' = Event("GetExpired", p, c.key, Zero, FALSE,
                         IF c.key \in DOMAIN data THEN {c.key} ELSE {}, FALSE)
          /\ caller' = [caller EXCEPT ![p] =
                          IF c.op = "GetOrFetch"
                          THEN [pc |-> "fetch", op |-> c.op, key |-> c.key, snap |-> NoEntry]
                          ELSE Idle]
     ELSE /\ data' = Put(data, c.key, NewEntry(c.snap.Data, now))
          /\ ev' = Event("GetHit", p, c.key, c.snap.Data, TRUE, {}, FALSE)
          /\ caller' = [caller EXCEPT ![p] = Idle]
  /\ UNCHANGED now

\* Second half of Get: the expiry test on the entry read, then either the
\* delete under Lock and (zero, false), or (entry.Data, true).
GetFinish(p) ==
  /\ caller[p].pc = "get"
  /\ LET c == caller[p] IN
     IF Expired(c.snap, now)
     THEN /\ data' = Delete(data, c.key)
          /\ ev' = Event("GetExpired", p, c.key, Zero, FALSE,
                         IF c.key \in DOMAIN data THEN {c.key} ELSE {},
                         ev.kind = "GetRead" /\ ev.p = p /\ ev.chain)
          /\ caller' = [caller EXCEPT ![p] =
                          IF c.op = "GetOrFetch"
                          THEN [pc |-> "fetch", op |-> c.op, key |-> c.key, snap |-> NoEntry]
                          ELSE Idle]
     ELSE /\ data' = data
          /\ ev' = Event("GetHit", p, c.key, c.snap.Data, TRUE, {},
                         ev.kind = "GetRead" /\ ev.p = p /\ ev.chain)
          /\ caller' = [caller EXCEPT ![p] = Idle]
  /\ UNCHANGED now

\* (mutant) GetOrFetch caches the zero value when fetch() fails
FetchFailCachesZero(p) ==
  /\ caller[p].pc = "fetch"
  /\ ev' = Event("FetchErr", p, caller[p].key, Zero, FALSE, {},
                 ev.kind \in {"GetAbsent", "GetExpired"} /\ ev.p = p)
  /\ caller' = [caller EXCEPT ![p] = Idle]
  /\ data' = Put(data, caller[p].key, NewEntry(Zero, now))
  /\ UNCHANGED now

\* GetOrFetch after a miss: fetch() fails, the error is returned
FetchFail(p) ==
  /\ caller[p].pc = "fetch"
  /\ ev' = Event("FetchErr", p, caller[p].key, Zero, FALSE, {},
                 ev.kind \in {"GetAbsent", "GetExpired"} /\ ev.p = p)
  /\ caller' = [caller EXCEPT ![p] = Idle]
  /\ UNCHANGED <<data, now>>

\* (mutant) GetOrFetch stores the fetched value only when the key is still
\* absent: the first of two concurrent fetches wins
FetchSetIfAbsent(p, v) ==
  /\ caller[p].pc = "fetch"
  /\ data' = IF caller[p].key \in DOMAIN data THEN data
             ELSE Put(data, caller[p].key, NewEntry(v, now))
  /\ ev' = Event("FetchSet", p, caller[p].key, v, TRUE, {}, FALSE)
  /\ caller' = [caller EXCEPT ![p] = Idle]
  /\ UNCHANGED now

\* GetOrFetch after a miss: fetch() returns v, c.Set(key, v), v is returned
FetchSet(p, v) ==
  /\ caller[p].pc = "fetch"
  /\ \E entries \in SetOrders(data, now) :
       /\ data' = SetData(data, caller[p].key, v, now, entries)
       /\ ev' = Event("FetchSet", p, caller[p].key, v, TRUE,
                      DOMAIN data \ DOMAIN SetEvict(data, now, entries), FALSE)
  /\ caller' = [caller EXCEPT ![p] = Idle]
  /\ UNCHANGED now

\* time passes
Tick ==
  /\ now < MaxTime
  /\ now' = now + 1
  /\ UNCHANGED <<data, caller, ev>>

InitCache ==
  /\ data = EmptyMap
  /\ now = 0
  /\ caller = [p \in Callers |-> Idle]
  /\ ev = Event("Init", NoCaller, NoKey, Zero, FALSE, {}, FALSE)

NextCache ==
  \/ \E p \in Callers, k \in Keys, v \in Values : Set(p, k, v) /\ UNCHANGED <<dedupVars, fanVars, routerVars, serial, mu>>
  \/ \E p \in Callers, k \in Keys, op \in {"Get", "GetOrFetch"} :
       GetRead(p, k, op) /\ UNCHANGED <<dedupVars, fanVars, routerVars, serial, mu>>
  \/ \E p \in Callers : GetFinish(p) /\ UNCHANGED <<dedupVars, fanVars, routerVars, serial, mu>>
  \/ \E p \in Callers : FetchFail(p) /\ UNCHANGED <<dedupVars, fanVars, routerVars, serial, mu>>
  \/ \E p \in Callers, v \in Values : FetchSet(p, v) /\ UNCHANGED <<dedupVars, fanVars, routerVars, serial, mu>>
  \/ Tick /\ UNCHANGED <<dedupVars, fanVars, routerVars, serial, mu>>

\* ------------------------------------------------------------------------
\* GetOrFetch calls made one after another: a call starts only when no call
\* is in progress. serial records the call in progress or just returned:
\*   st       "none" before the first call, "running", "returned"
\*   key      the key of the call
\*   present  whether the key was in the map when the call read it
\*   exp      the ExpiresAt of the entry read (-1 when absent)
\*   t0, at   the clock at the read and at the expiry test (-1: no test made)
\*   fetches  the number of times fetch() was invoked by the call
\*   val, err what the call returned
\*   stored   the clock when the call stored its value (-1: nothing stored)
\*   prev     the key, value and ExpiresAt stored by the call before (if any)

NoPrev == [key |-> NoKey, val |-> Zero, exp |-> -1]

NoSerial ==
  [st |-> "none", key |-> NoKey, present |-> FALSE, exp |-> -1, t0 |-> -1, at |-> -1,
   fetches |-> 0, val |-> Zero, err |-> FALSE, stored |-> -1, prev |-> NoPrev]

\* the state of the call of p after a step: returned when p is idle again
CallState(p) == IF caller'[p].pc = "idle" THEN "returned" ELSE "running"

\* GetOrFetch(key, fetch) is called: the read of c.Get(key)
SerialGetOrFetch(p, k) ==
  /\ \A q \in Callers : caller[q].pc = "idle"
  /\ GetRead(p, k, "GetOrFetch")
  /\ serial' = [st |-> CallState(p), key |-> k, present |-> k \in DOMAIN data,
                exp |-> IF k \in DOMAIN data THEN data[k].ExpiresAt ELSE -1,
                t0 |-> now, at |-> -1, fetches |-> 0, val |-> Zero, err |-> FALSE,
                stored |-> -1,
                prev |-> IF serial.st = "returned" /\ serial.stored >= 0
                         THEN [key |-> serial.key, val |-> serial.val,
                               exp |-> data[serial.key].ExpiresAt]
                         ELSE NoPrev]

\* the Get inside GetOrFetch returns: a hit ends the call
SerialGetReturns(p) ==
  /\ GetFinish(p)
  /\ serial' = [serial EXCEPT !.st = CallState(p), !.at = now, !.val = ev'.val]

\* fetch() fails: the call returns the error
SerialFetchFail(p) ==
  /\ FetchFail(p)
  /\ serial' = [serial EXCEPT !.st = CallState(p), !.fetches = @ + 1,
                              !.val = ev'.val, !.err = TRUE]

\* fetch() returns v: the call stores and returns it
SerialFetchSet(p, v) ==
  /\ FetchSet(p, v)
  /\ serial' = [serial EXCEPT !.st = CallState(p), !.fetches = @ + 1,
                              !.val = ev'.val, !.stored = now]

NextSerial ==
  \/ \E p \in Callers, k \in Keys :
       SerialGetOrFetch(p, k) /\ UNCHANGED <<dedupVars, fanVars, routerVars, mu>>
  \/ \E p \in Callers : SerialGetReturns(p) /\ UNCHANGED <<dedupVars, fanVars, routerVars, mu>>
  \/ \E p \in Callers : SerialFetchFail(p) /\ UNCHANGED <<dedupVars, fanVars, routerVars, mu>>
  \/ \E p \in Callers, v \in Values :
       SerialFetchSet(p, v) /\ UNCHANGED <<dedupVars, fanVars, routerVars, mu>>
  \/ Tick /\ UNCHANGED <<dedupVars, fanVars, routerVars, serial, mu>>

\* ------------------------------------------------------------------------
\* Concurrent GetOrFetch calls. serial records the latest pair of calls that
\* were inside fetch() for the same key at the same time:
\*   key    the key of the two calls
\*   ret    per caller of the pair that has returned: the ok and value returned
\*   last   the caller of the pair that returned last so far
\*   entry  the entry of key in the map when that caller returned
\*   at     the clock when that caller returned

NoRace == [key |-> NoKey, ret |-> EmptyMap, last |-> NoCaller, entry |-> NoEntry, at |-> -1]

\* two callers are inside fetch() for the same key
InFetchTogether(c) ==
  \E p, q \in Callers :
    p # q /\ c[p].pc = "fetch" /\ c[q].pc = "fetch" /\ c[p].key = c[q].key

\* the record after a step of p: a new pair when p enters fetch() while the
\* other caller is inside fetch() for the same key; the result of p when p
\* returns from the call it made as one of the pair; the record of a pair
\* that has returned is dropped at the next step of a caller
RaceTrack(p) ==
  IF caller[p].pc # "fetch" /\ caller'[p].pc = "fetch" /\ InFetchTogether(caller')
  THEN [NoRace EXCEPT !.key = caller'[p].key]
  ELSE IF /\ caller[p].pc = "fetch"
          /\ serial.key = caller[p].key
          /\ p \notin DOMAIN serial.ret
  THEN [serial EXCEPT !.ret = Put(@, p, [ok |-> ev'.ok, val |-> ev'.val]),
                      !.last = p,
                      !.entry = IF serial.key \in DOMAIN data'
                                THEN data'[serial.key] ELSE NoEntry,
                      !.at = now]
  ELSE IF DOMAIN serial.ret = Callers THEN NoRace
  ELSE serial

\* GetOrFetch(key, fetch) is called: the read of c.Get(key)
RaceGetOrFetch(p, k) == GetRead(p, k, "GetOrFetch") /\ serial' = RaceTrack(p)

\* the Get inside GetOrFetch returns
RaceGetReturns(p) == GetFinish(p) /\ serial' = RaceTrack(p)

\* fetch() fails: the call returns the error
RaceFetchFail(p) == FetchFail(p) /\ serial' = RaceTrack(p)

\* fetch() returns v: the call stores and returns it
RaceFetchSet(p, v) == FetchSet(p, v) /\ serial' = RaceTrack(p)

NextRace ==
  \/ \E p \in Callers, k \in Keys :
       RaceGetOrFetch(p, k) /\ UNCHANGED <<dedupVars, fanVars, routerVars, mu>>
  \/ \E p \in Callers : RaceGetReturns(p) /\ UNCHANGED <<dedupVars, fanVars, routerVars, mu>>
  \/ \E p \in Callers : RaceFetchFail(p) /\ UNCHANGED <<dedupVars, fanVars, routerVars, mu>>
  \/ \E p \in Callers, v \in Values :
       RaceFetchSet(p, v) /\ UNCHANGED <<dedupVars, fanVars, routerVars, mu>>
  \/ Tick /\ UNCHANGED <<dedupVars, fanVars, routerVars, serial, mu>>

\* ------------------------------------------------------------------------
\* The sent-posts tracker and the deals routine (package bot)

\* maxCacheSize (scaled: the program uses 200)
maxCacheSize == 2
\* cleanupPercent = 0.5, as the fraction CleanupNum / CleanupDen
CleanupNum == 1
CleanupDen == 2

\* the deal IDs the catalog may list
DealIDs == {"d1", "d2", "d3"}
\* a poll lists at most MaxDeals deals (the program asks for pageSize=10,
\* well below maxCacheSize)
MaxDeals == 2
\* the routine polls at most MaxPolls times; poll n reads the clock as n
MaxPolls == 4

Range(f) == {f[i] : i \in DOMAIN f}

\* the lists GetCheapSharkDeals may return: distinct deal IDs, in any order
DealLists ==
  UNION {{l \in [1..n -> DealIDs] : \A i, j \in 1..n : i # j => l[i] # l[j]} : n \in 0..MaxDeals}

\* the inner loop of cleanupOldEntries' sort
RECURSIVE cleanupSortInner(_, _, _, _)
cleanupSortInner(e, i, j, posts) ==
  IF j > Len(e) THEN e
  ELSE cleanupSortInner(IF posts[e[i]] > posts[e[j]] THEN Swap(e, i, j) ELSE e,
                        i, j + 1, posts)

\* the outer loop of cleanupOldEntries' sort
RECURSIVE cleanupSortOuter(_, _, _)
cleanupSortOuter(e, i, posts) ==
  IF i > Len(e) - 1 THEN e
  ELSE cleanupSortOuter(cleanupSortInner(e, i, i + 1, posts), i + 1, posts)

\* (mutant) cleanupPercent = 1.0: a cleanup pass removes every entry
removeCountAll(posts) == Size(posts)

\* removeCount := int(float64(len(sentPosts)) * cleanupPercent)
removeCount(posts) == (Size(posts) * CleanupNum) \div CleanupDen

\* (mutant) cleanupOldEntries deletes the last removeCount entries of the
\* sorted list, the most recently marked ones
cleanupNewestEntries(posts, entries) ==
  IF Size(posts) = 0 THEN posts
  ELSE LET sorted == cleanupSortOuter(entries, 1, posts)
           gone == {sorted[i] : i \in (Len(sorted) - removeCount(posts) + 1)..Len(sorted)}
       IN [id \in DOMAIN posts \ gone |-> posts[id]]

\* cleanupOldEntries: sort the entries (taken in map iteration order) by
\* timestamp, oldest first, and delete the first removeCount of them
cleanupOldEntries(posts, entries) ==
  IF Size(posts) = 0 THEN posts
  ELSE LET sorted == cleanupSortOuter(entries, 1, posts)
           gone == {sorted[i] : i \in 1..removeCount(posts)}
       IN [id \in DOMAIN posts \ gone |-> posts[id]]

\* the tracker after the non-empty branch of initializeDealsCache
steadyPosts(posts, entries) ==
  IF Size(posts) > maxCacheSize THEN cleanupOldEntries(posts, entries) ELSE posts

\* the orders in which cleanupOldEntries may range over the map
cleanupOrders(posts) ==
  IF Size(posts) > maxCacheSize THEN Perms(DOMAIN posts) ELSE {<<>>}

\* the tracker after the empty branch of initializeDealsCache: every listed
\* deal is marked with time.Now()
bulkMark(list, t) == [id \in Range(list) |-> t]

\* isAlreadySent
isAlreadySent(posts, dealID) == dealID \in DOMAIN posts

\* markAsSent
markAsSent(posts, dealID, t) == Put(posts, dealID, t)

\* the outcomes of sendDeal: the detail fetch fails, the message send fails,
\* or the message is sent
SendOutcomes == {"detail_error", "send_error", "sent"}

\* (mutant) the deal is marked whether or not sendDeal succeeded
marksDealAlways(outcome) == TRUE

\* checkAndSendDeals marks the deal when sendDeal returned nil
marksDeal(outcome) == outcome = "sent"

Waiting == [pc |-> "wait", deals |-> <<>>, idx |-> 0]

\* The record of what the routine has done:
\*   polls   the number of successful polls so far (counted up to 3)
\*   first   the deals of the first successful poll
\*   listed  the deals of the latest successful poll
\*   bulk    the deal IDs marked without delivery by initializeDealsCache
\*   tried   the deal IDs sendDeal was called for in the latest successful poll
\*   count   per deal ID, the number of successful deliveries (counted up to 2)
\*   tries   per deal ID, the number of calls of sendDeal (counted up to 2)
\*   last    the last step of the routine
Bump(n) == Min(n + 1, 2)

\* (mutant) a failed fetch is handled as an empty list: the bookkeeping of
\* initializeDealsCache still runs
PollErrorInitializes ==
  /\ routine.pc = "wait"
  /\ now < MaxPolls
  /\ now' = now + 1
  /\ \E entries \in cleanupOrders(sentPosts) :
       sentPosts' = steadyPosts(sentPosts, entries)
  /\ sent' = [sent EXCEPT !.last = "poll_error"]
  /\ UNCHANGED <<data, caller, ev, routine, fanVars, routerVars, serial, mu>>

\* checkAndSendDeals when GetCheapSharkDeals fails: log and return
PollError ==
  /\ routine.pc = "wait"
  /\ now < MaxPolls
  /\ now' = now + 1
  /\ sent' = [sent EXCEPT !.last = "poll_error"]
  /\ UNCHANGED <<data, caller, ev, sentPosts, routine, fanVars, routerVars, serial, mu>>

\* checkAndSendDeals up to the loop: the deals are fetched, then
\* initializeDealsCache either bulk-marks them (empty tracker: return) or
\* cleans up an oversized tracker and lets the loop run
PollStart(list) ==
  /\ routine.pc = "wait"
  /\ now < MaxPolls
  /\ now' = now + 1
  /\ IF Size(sentPosts) > 0
     THEN /\ \E entries \in cleanupOrders(sentPosts) :
               sentPosts' = steadyPosts(sentPosts, entries)
          /\ routine' = [pc |-> "loop", deals |-> list, idx |-> 1]
          /\ sent' = [sent EXCEPT !.polls = Min(@ + 1, 3),
                                  !.first = IF sent.polls = 0 THEN list ELSE @,
                                  !.listed = list,
                                  !.tried = {},
                                  !.last = IF Size(sentPosts) > maxCacheSize
                                           THEN "cleanup" ELSE "steady"]
     ELSE /\ sentPosts' = bulkMark(list, now')
          /\ routine' = Waiting
          /\ sent' = [sent EXCEPT !.polls = Min(@ + 1, 3),
                                  !.first = IF sent.polls = 0 THEN list ELSE @,
                                  !.listed = list,
                                  !.bulk = @ \cup Range(list),
                                  !.tried = {},
                                  !.last = "bulk"]
  /\ UNCHANGED <<data, caller, ev, fanVars, routerVars, serial, mu>>

\* one iteration of the loop over the deals, for a deal already sent: continue
LoopSkip ==
  /\ routine.pc = "loop"
  /\ routine.idx <= Len(routine.deals)
  /\ isAlreadySent(sentPosts, routine.deals[routine.idx])
  /\ routine' = [routine EXCEPT !.idx = @ + 1]
  /\ sent' = [sent EXCEPT !.last = "skip"]
  /\ UNCHANGED <<data, now, caller, ev, sentPosts, fanVars, routerVars, serial, mu>>

\* one iteration of the loop over the deals, for a deal not yet sent:
\* sendDeal, and markAsSent when it succeeded
LoopSend(outcome) ==
  /\ routine.pc = "loop"
  /\ routine.idx <= Len(routine.deals)
  /\ ~isAlreadySent(sentPosts, routine.deals[routine.idx])
  /\ LET dealID == routine.deals[routine.idx] IN
       /\ sentPosts' = IF marksDeal(outcome)
                       THEN markAsSent(sentPosts, dealID, now) ELSE sentPosts
       /\ sent' = [sent EXCEPT !.tried = @ \cup {dealID},
                               !.count[dealID] = IF outcome = "sent" THEN Bump(@) ELSE @,
                               !.tries[dealID] = Bump(@),
                               !.last = outcome]
  /\ routine' = [routine EXCEPT !.idx = @ + 1]
  /\ UNCHANGED <<data, now, caller, ev, fanVars, routerVars, serial, mu>>

\* the loop is over: checkAndSendDeals returns, the routine waits for the tick
LoopEnd ==
  /\ routine.pc = "loop"
  /\ routine.idx > Len(routine.deals)
  /\ routine' = Waiting
  /\ sent' = [sent EXCEPT !.last = "returned"]
  /\ UNCHANGED <<data, now, caller, ev, sentPosts, fanVars, routerVars, serial, mu>>

InitDedup ==
  /\ sentPosts = EmptyMap
  /\ routine = Waiting
  /\ sent = [polls |-> 0, first |-> <<>>, listed |-> <<>>, bulk |-> {},
             tried |-> {}, count |-> [id \in DealIDs |-> 0],
             tries |-> [id \in DealIDs |-> 0], last |-> "start"]

NextDedup ==
  \/ PollError
  \/ \E list \in DealLists : PollStart(list)
  \/ LoopSkip
  \/ \E outcome \in SendOutcomes : LoopSend(outcome)
  \/ LoopEnd

\* ------------------------------------------------------------------------
\* processSearchResults (package bot): the bounded-concurrency fan-out

\* the capacity of sem: make(chan struct{}, 3)
SemCap == 3
\* SearchSteam returns at most MaxItems items (the program caps at 5)
MaxItems == 4
\* the apps a search may return
ItemIDs == {"app1", "app2"}

\* the inputs of processSearchResults
ItemLists == UNION {[1..n -> ItemIDs] : n \in 0..MaxItems}

\* the zero value of a slot of inlineResults
NilResult == [Id |-> -1, item |-> "none", info |-> "none"]

\* buildInlineResult(index, item, userID): the article carries the index as
\* its Id and the item's name and ID; info tells whether GetSteamAppInfo
\* gave the app's details or failed (the error is ignored)
buildInlineResult(index, item, info) == [Id |-> index, item |-> item, info |-> info]

\* (mutant) the goroutine writes the slot of the loop variable, which the
\* loop has moved on since (a closure over idx instead of the parameter i)
slotShared(i) == fan.started

\* the slot goroutine i writes: inlineResults[i]
slot(i) == i

\* (mutant) a send on sem never blocks
semNeverFull(n) == FALSE

\* a send on sem blocks while the channel holds SemCap elements
semFull(n) == n >= SemCap

Tasks == 1..Len(fan.items)

\* the loop of processSearchResults: wg.Add(1) and go func(i, item)
Spawn ==
  /\ fan.pc = "loop"
  /\ fan.started < Len(fan.items)
  /\ fan' = [fan EXCEPT !.started = @ + 1, !.wg = @ + 1]
  /\ task' = [task EXCEPT ![fan.started + 1] = "gate"]
  /\ UNCHANGED <<cacheVars, dedupVars, routerVars, serial, mu, inlineResults>>

\* the loop is over: the caller goes on to wg.Wait()
LoopDone ==
  /\ fan.pc = "loop"
  /\ fan.started = Len(fan.items)
  /\ fan' = [fan EXCEPT !.pc = "wait"]
  /\ UNCHANGED <<cacheVars, dedupVars, routerVars, serial, mu, task, inlineResults>>

\* goroutine i: sem <- struct{}{}
Acquire(i) ==
  /\ task[i] = "gate"
  /\ ~semFull(fan.sem)
  /\ fan' = [fan EXCEPT !.sem = @ + 1]
  /\ task' = [task EXCEPT ![i] = "work"]
  /\ UNCHANGED <<cacheVars, dedupVars, routerVars, serial, mu, inlineResults>>

\* goroutine i: inlineResults[i] = buildInlineResult(i, item, userID)
\* (Go indexes from 0: goroutine i of the model has index i - 1)
Work(i, info) ==
  /\ task[i] = "work"
  /\ inlineResults' = [inlineResults EXCEPT ![slot(i)] =
                         buildInlineResult(i - 1, fan.items[i], info)]
  /\ task' = [task EXCEPT ![i] = "release"]
  /\ UNCHANGED <<cacheVars, dedupVars, routerVars, serial, mu, fan>>

\* (mutant) the goroutine does not give its slot back
ReleaseLeaks(i) ==
  /\ task[i] = "release"
  /\ task' = [task EXCEPT ![i] = "done"]
  /\ UNCHANGED <<cacheVars, dedupVars, routerVars, serial, mu, fan, inlineResults>>

\* goroutine i, deferred: <-sem
Release(i) ==
  /\ task[i] = "release"
  /\ fan' = [fan EXCEPT !.sem = @ - 1]
  /\ task' = [task EXCEPT ![i] = "done"]
  /\ UNCHANGED <<cacheVars, dedupVars, routerVars, serial, mu, inlineResults>>

\* goroutine i, deferred: wg.Done()
Done(i) ==
  /\ task[i] = "done"
  /\ fan' = [fan EXCEPT !.wg = @ - 1]
  /\ task' = [task EXCEPT ![i] = "exited"]
  /\ UNCHANGED <<cacheVars, dedupVars, routerVars, serial, mu, inlineResults>>

\* (mutant) processSearchResults returns without wg.Wait()
ReturnWithoutWait ==
  /\ fan.pc = "wait"
  /\ fan' = [fan EXCEPT !.pc = "returned"]
  /\ UNCHANGED <<cacheVars, dedupVars, routerVars, serial, mu, task, inlineResults>>

\* wg.Wait() returns, processSearchResults returns inlineResults
Return ==
  /\ fan.pc = "wait"
  /\ fan.wg = 0
  /\ fan' = [fan EXCEPT !.pc = "returned"]
  /\ UNCHANGED <<cacheVars, dedupVars, routerVars, serial, mu, task, inlineResults>>

\* goroutine i: buildInlineResult panics. The goroutine has no recover, so the
\* panic ends the whole program: the caller and every goroutine that has
\* not exited stop where they are, the slot is not written.
Panic(i) ==
  /\ task[i] = "work"
  /\ task' = [j \in DOMAIN task |->
                IF j = i THEN "panicked"
                ELSE IF task[j] \in {"new", "exited"} THEN task[j] ELSE "aborted"]
  /\ fan' = [fan EXCEPT !.pc = "crashed"]
  /\ UNCHANGED <<cacheVars, dedupVars, routerVars, serial, mu, inlineResults>>

NoFan == [pc |-> "none", items |-> <<>>, started |-> 0, wg |-> 0, sem |-> 0]

\* processSearchResults is not running
InitNoFan ==
  /\ fan = NoFan
  /\ task = <<>>
  /\ inlineResults = <<>>

\* processSearchResults(results, userID) has made its result slice
InitFan ==
  /\ \E items \in ItemLists :
       /\ fan = [pc |-> "loop", items |-> items, started |-> 0, wg |-> 0, sem |-> 0]
       /\ task = [i \in 1..Len(items) |-> "new"]
       /\ inlineResults = [i \in 1..Len(items) |-> NilResult]

NextFan ==
  \/ Spawn
  \/ LoopDone
  \/ \E i \in Tasks : Acquire(i)
  \/ \E i \in Tasks, info \in {"details", "none"} : Work(i, info)
  \/ \E i \in Tasks : Release(i)
  \/ \E i \in Tasks : Done(i)
  \/ Return

\* processSearchResults when buildInlineResult may panic
NextFanPanic ==
  \/ NextFan
  \/ \E i \in Tasks : Panic(i)

\* ------------------------------------------------------------------------
\* HandleCallbackQuery (package bot): callback tokens, decoding, authorization
\* and dispatch. A string is modelled as the sequence of its characters.

\* the longest payload (the text after the prefix) of a callback token
MaxPayload == 3

\* the characters a payload is made of
PayloadChars == {"1", "2", "a", "_", "-"}

\* the users who press buttons (ctx.CallbackQuery.From.Id)
UserIDs == {1, 2}

\* the goroutine running HandleCallbackQuery, as a caller of the cache
Handler == "h"

\* the app whose details may be in the cache when the callback arrives
CachedApp == <<"1">>

\* (mutant) the legacy prefix "more_details:" is mapped to Requirements
prefixesLegacyRequirements ==
  [p \in {<<"d", "e", "t", "a", "i", "l", "s", ":">>,
          <<"m", "o", "r", "e", "_", "d", "e", "t", "a", "i", "l", "s", ":">>,
          <<"r", "e", "q", "u", "i", "r", "e", "m", "e", "n", "t", "s", ":">>,
          <<"h", "l", "t", "b", ":">>,
          <<"m", "y", "s", "t", "e", "a", "m", ":">>,
          <<"b", "a", "c", "k", ":">>} |->
     CASE p[1] = "d" -> "Details"
       [] p[1] = "m" /\ p[2] = "o" -> "Requirements"
       [] p[1] = "r" -> "Requirements"
       [] p[1] = "h" -> "HLTB"
       [] p[1] = "m" /\ p[2] = "y" -> "MySteam"
       [] OTHER -> "Back"]

\* the prefixes of parseCallbackData, each with its CallbackType
prefixes ==
  [p \in {<<"d", "e", "t", "a", "i", "l", "s", ":">>,
          <<"m", "o", "r", "e", "_", "d", "e", "t", "a", "i", "l", "s", ":">>,
          <<"r", "e", "q", "u", "i", "r", "e", "m", "e", "n", "t", "s", ":">>,
          <<"h", "l", "t", "b", ":">>,
          <<"m", "y", "s", "t", "e", "a", "m", ":">>,
          <<"b", "a", "c", "k", ":">>} |->
     CASE p[1] = "d" -> "Details"
       [] p[1] = "m" /\ p[2] = "o" -> "Details"
       [] p[1] = "r" -> "Requirements"
       [] p[1] = "h" -> "HLTB"
       [] p[1] = "m" /\ p[2] = "y" -> "MySteam"
       [] OTHER -> "Back"]

\* the starts of the callback data that arrive: the six prefixes, no prefix,
\* and a prefix the bot does not know
DataStarts == DOMAIN prefixes \cup {<<>>, <<"x", ":">>}

Payloads == UNION {[1..n -> PayloadChars] : n \in 0..MaxPayload}

\* the callback data that arrive
CallbackDatas == {start \o payload : start \in DataStarts, payload \in Payloads}

\* strings.HasPrefix
\* (mutant) the prefix is looked for anywhere in the data (strings.Contains)
HasPrefixAnywhere(s, prefix) ==
  \E i \in 1..Len(s) :
    i + Len(prefix) - 1 <= Len(s) /\ SubSeq(s, i, i + Len(prefix) - 1) = prefix

HasPrefix(s, prefix) == Len(s) >= Len(prefix) /\ SubSeq(s, 1, Len(prefix)) = prefix

\* strings.TrimPrefix, for a prefix s starts with
TrimPrefix(s, prefix) == SubSeq(s, Len(prefix) + 1, Len(s))

\* strings.Split(s, "_") from position i on: cur is the part being read,
\* parts the parts finished
RECURSIVE SplitFrom(_, _, _, _)
SplitFrom(s, i, cur, parts) ==
  IF i > Len(s) THEN Append(parts, cur)
  ELSE IF s[i] = "_" THEN SplitFrom(s, i + 1, <<>>, Append(parts, cur))
  ELSE SplitFrom(s, i + 1, Append(cur, s[i]), parts)

\* strings.Split(s, "_")
Split(s) == SplitFrom(s, 1, <<>>, <<>>)

Digits == {"0", "1", "2", "3", "4", "5", "6", "7", "8", "9"}

DigitVal(c) ==
  CASE c = "0" -> 0 [] c = "1" -> 1 [] c = "2" -> 2 [] c = "3" -> 3 [] c = "4" -> 4
    [] c = "5" -> 5 [] c = "6" -> 6 [] c = "7" -> 7 [] c = "8" -> 8 [] OTHER -> 9

\* the digits of strconv.ParseInt from position i on, n being the value so far
RECURSIVE ParseDigits(_, _, _)
ParseDigits(s, i, n) ==
  IF i > Len(s) THEN [err |-> FALSE, val |-> n]
  ELSE IF s[i] \notin Digits THEN [err |-> TRUE, val |-> 0]
  ELSE ParseDigits(s, i + 1, 10 * n + DigitVal(s[i]))

\* strconv.ParseInt(s, 10, 64): an optional sign, then at least one digit
\* (the payloads are too short to leave the range of int64)
ParseInt(s) ==
  IF s = <<>> THEN [err |-> TRUE, val |-> 0]
  ELSE IF s[1] \in {"+", "-"}
  THEN IF Len(s) = 1 THEN [err |-> TRUE, val |-> 0]
       ELSE LET r == ParseDigits(s, 2, 0)
            IN IF s[1] = "-" THEN [err |-> r.err, val |-> 0 - r.val] ELSE r
  ELSE ParseDigits(s, 1, 0)

\* CallbackData, with the error parseCallbackData returns next to it
CallbackData(type, appID, userID, err) ==
  [Type |-> type, AppID |-> appID, UserID |-> userID, err |-> err]

\* what parseCallbackData returns when its range over prefixes stops at prefix
parseWith(dat, prefix) ==
  LET parts == Split(TrimPrefix(dat, prefix))
  IN IF Len(parts) # 2 THEN CallbackData(prefixes[prefix], <<>>, 0, TRUE)
     ELSE LET id == ParseInt(parts[2])
          IN IF id.err THEN CallbackData(prefixes[prefix], parts[1], 0, TRUE)
             ELSE CallbackData(prefixes[prefix], parts[1], id.val, FALSE)

\* (mutant) data with no known prefix is decoded as a Details token whose
\* payload is the whole data
parseCallbackDataDefaultDetails(dat) ==
  LET matching == {p \in DOMAIN prefixes : HasPrefix(dat, p)}
      asDetails == CHOOSE p \in DOMAIN prefixes : prefixes[p] = "Details"
  IN IF matching = {}
     THEN LET parts == Split(dat)
          IN IF Len(parts) # 2 THEN {CallbackData("Details", <<>>, 0, TRUE)}
             ELSE LET id == ParseInt(parts[2])
                  IN {CallbackData(prefixes[asDetails], parts[1], id.val, id.err)}
     ELSE {parseWith(dat, p) : p \in matching}

\* parseCallbackData: the range over the prefixes map visits them in any order
\* and stops at the first one the data starts with
parseCallbackData(dat) ==
  LET matching == {p \in DOMAIN prefixes : HasPrefix(dat, p)}
  IN IF matching = {} THEN {CallbackData("Unknown", <<>>, 0, FALSE)}
     ELSE {parseWith(dat, p) : p \in matching}

NoCallback == CallbackData("Unknown", <<>>, 0, FALSE)

\* (mutant) the authorization test lets every user through
authorizedAlways(cb, from) == TRUE

\* the authorization test: cbData.UserID == ctx.CallbackQuery.From.Id
authorized(cb, from) == cb.UserID = from

\* the digit characters, by value
DigitChar(d) ==
  CASE d = 0 -> "0" [] d = 1 -> "1" [] d = 2 -> "2" [] d = 3 -> "3" [] d = 4 -> "4"
    [] d = 5 -> "5" [] d = 6 -> "6" [] d = 7 -> "7" [] d = 8 -> "8" [] OTHER -> "9"

\* the decimal digits of n >= 0, as fmt's %d writes them
RECURSIVE FormatDigits(_)
FormatDigits(n) ==
  IF n < 10 THEN <<DigitChar(n)>>
  ELSE Append(FormatDigits(n \div 10), DigitChar(n % 10))

\* fmt.Sprintf("%d", n)
FormatInt(n) == IF n < 0 THEN <<"-">> \o FormatDigits(0 - n) ELSE FormatDigits(n)

\* strconv.Atoi with its error dropped: 0 for a text that is not a number
\* (the payloads are too short to leave the range of int)
Atoi(s) == LET r == ParseInt(s) IN IF r.err THEN 0 ELSE r.val

\* the prefix of parseCallbackData's map written "<name>:"
PrefixNamed(first, second) ==
  CHOOSE p \in DOMAIN prefixes : p[1] = first /\ p[2] = second

\* fmt.Sprintf("<prefix>%s_%d", appID, userID)
Sprintf(prefix, appID, userID) == prefix \o appID \o <<"_">> \o FormatInt(userID)

\* the callback data on the buttons of the view built for cb: the keyboards
\* of handleDetailsCallback, handleRequirementsCallback, handleHLTBCallback,
\* and buildInlineKeyboard(appIDInt, cbData.UserID) for handleBackCallback
replyMarkup(cb) ==
  CASE cb.Type = "Details" ->
         {Sprintf(PrefixNamed("r", "e"), cb.AppID, cb.UserID),
          Sprintf(PrefixNamed("h", "l"), cb.AppID, cb.UserID),
          Sprintf(PrefixNamed("b", "a"), cb.AppID, cb.UserID)}
    [] cb.Type = "Requirements" ->
         {Sprintf(PrefixNamed("d", "e"), cb.AppID, cb.UserID),
          Sprintf(PrefixNamed("b", "a"), cb.AppID, cb.UserID)}
    [] cb.Type = "HLTB" ->
         {Sprintf(PrefixNamed("r", "e"), cb.AppID, cb.UserID),
          Sprintf(PrefixNamed("b", "a"), cb.AppID, cb.UserID)}
    [] cb.Type = "Back" ->
         {Sprintf(PrefixNamed("d", "e"), FormatInt(Atoi(cb.AppID)), cb.UserID),
          Sprintf(PrefixNamed("r", "e"), FormatInt(Atoi(cb.AppID)), cb.UserID)}
    [] OTHER -> {}

\* how the callback query can be answered: it came from an inline message
\* (InlineMessageId set), from a chat message (Message set), or from neither
Modes == {"inline", "message", "none"}

\* sendCallbackResponse: the number of message edits it makes
\* (mutant) sendCallbackResponse edits the inline message and the chat
\* message both
sendCallbackResponseBoth(mode) == IF mode = "none" THEN 0 ELSE 2

sendCallbackResponse(mode) == IF mode = "none" THEN 0 ELSE 1

\* HandleCallbackQuery up to its first call to the cache or the network:
\* decode the data, drop what does not decode, test the sender, pick the branch
HandleCallbackQuery ==
  /\ h.pc = "start"
  /\ \E cb \in parseCallbackData(req.data) :
       IF cb.err \/ cb.Type = "Unknown"
       THEN /\ h' = [h EXCEPT !.pc = "done", !.cb = cb]
            /\ out' = out
       ELSE IF ~authorized(cb, req.from)
       THEN /\ h' = [h EXCEPT !.pc = "done", !.cb = cb]
            /\ out' = [out EXCEPT !.answers = Append(@, "This is not for you")]
       ELSE IF cb.Type = "MySteam"
       THEN /\ h' = [h EXCEPT !.pc = "mysteam", !.cb = cb]
            /\ out' = out
       ELSE IF cb.Type = "Back"
       THEN /\ h' = [h EXCEPT !.pc = "back", !.cb = cb]
            /\ out' = out
       ELSE /\ h' = [h EXCEPT !.pc = "details", !.cb = cb, !.ret = "route"]
            /\ out' = [out EXCEPT !.answers = Append(@, "Fetching...")]
  /\ UNCHANGED <<req, cacheVars, dedupVars, fanVars, serial, mu>>

\* handleMySteamCallback: keySet is cfg.SteamAPIKey != "", found is whether
\* GetSteamUserInfo finds the user
handleMySteamCallback(keySet, found) ==
  /\ h.pc = "mysteam"
  /\ h' = [h EXCEPT !.pc = "done"]
  /\ out' =
       IF h.cb.AppID = <<>>
       THEN [out EXCEPT !.answers = Append(@, "Please provide a username. Try: .mysteam username"),
                        !.edits = @ + 1]
       ELSE IF ~keySet
       THEN [out EXCEPT !.answers = Append(@, "Steam API key not configured")]
       ELSE IF ~found
       THEN [out EXCEPT !.answers = Append(@, "Fetching profile..."),
                        !.fetch = @ + 1, !.edits = @ + 1]
       ELSE [out EXCEPT !.answers = Append(@, "Fetching profile..."),
                        !.fetch = @ + 1, !.view = "profile", !.edits = @ + 1]
  /\ UNCHANGED <<req, cacheVars, dedupVars, fanVars, serial, mu>>

\* handleBackCallback up to the read of cache.Get(cbData.AppID)
handleBackCallback ==
  /\ h.pc = "back"
  /\ GetRead(Handler, h.cb.AppID, "Get")
  /\ h' = IF h.cb.AppID \in DOMAIN data
          THEN [h EXCEPT !.pc = "backget"]
          ELSE [h EXCEPT !.pc = "details", !.ret = "appinfo"]
  /\ out' = [out EXCEPT !.answers = Append(@, "Going back..."), !.cache = @ + 1]
  /\ UNCHANGED <<req, dedupVars, fanVars, serial, mu>>

\* handleBackCallback: cache.Get returns; not cached means
\* GetFullSteamAppDetails, cached means straight to GetSteamAppInfo
handleBackCached ==
  /\ h.pc = "backget"
  /\ GetFinish(Handler)
  /\ h' = IF Expired(caller[Handler].snap, now)
          THEN [h EXCEPT !.pc = "details", !.ret = "appinfo"]
          ELSE [h EXCEPT !.pc = "details", !.ret = "respond"]
  /\ out' = [out EXCEPT !.cached = ev'.ok]
  /\ UNCHANGED <<req, dedupVars, fanVars, serial, mu>>

\* where the handler goes on when GetFullSteamAppDetails has returned details:
\* to routeCallback, to GetSteamAppInfo (GetFullSteamAppDetails once more), or
\* to the end of handleBackCallback
Continue(ret) ==
  CASE ret = "route" -> [h EXCEPT !.pc = "route"]
    [] ret = "appinfo" -> [h EXCEPT !.pc = "details", !.ret = "respond"]
    [] OTHER -> [h EXCEPT !.pc = "respond"]

\* GetFullSteamAppDetails: the read of the Get inside GetOrFetch
GetFullSteamAppDetails ==
  /\ h.pc = "details"
  /\ GetRead(Handler, h.cb.AppID, "GetOrFetch")
  /\ h' = IF h.cb.AppID \in DOMAIN data
          THEN [h EXCEPT !.pc = "detailsget"]
          ELSE [h EXCEPT !.pc = "fetch"]
  /\ out' = [out EXCEPT !.cache = @ + 1]
  /\ UNCHANGED <<req, dedupVars, fanVars, serial, mu>>

\* GetFullSteamAppDetails: the Get inside GetOrFetch returns
GetFullSteamAppDetailsCached ==
  /\ h.pc = "detailsget"
  /\ GetFinish(Handler)
  /\ h' = IF Expired(caller[Handler].snap, now)
          THEN [h EXCEPT !.pc = "fetch"]
          ELSE Continue(h.ret)
  /\ UNCHANGED <<req, out, dedupVars, fanVars, serial, mu>>

\* (mutant) handleBackCallback ignores the error of its re-fetch as it ignores
\* the error of GetSteamAppInfo, and goes on to build the view
fetchSteamAppDetailsErrIgnored ==
  /\ h.pc = "fetch"
  /\ FetchFail(Handler)
  /\ h' = IF h.ret \in {"respond", "appinfo"} THEN [h EXCEPT !.pc = "respond"]
          ELSE [h EXCEPT !.pc = "done"]
  /\ out' = [out EXCEPT !.fetch = @ + 1]
  /\ UNCHANGED <<req, dedupVars, fanVars, serial, mu>>

\* fetchSteamAppDetails fails: both handlers return, but GetSteamAppInfo's
\* error is ignored by handleBackCallback
fetchSteamAppDetailsErr ==
  /\ h.pc = "fetch"
  /\ FetchFail(Handler)
  /\ h' = IF h.ret = "respond" THEN [h EXCEPT !.pc = "respond"] ELSE [h EXCEPT !.pc = "done"]
  /\ out' = [out EXCEPT !.fetch = @ + 1]
  /\ UNCHANGED <<req, dedupVars, fanVars, serial, mu>>

\* fetchSteamAppDetails returns v, GetOrFetch stores it
fetchSteamAppDetails(v) ==
  /\ h.pc = "fetch"
  /\ FetchSet(Handler, v)
  /\ h' = Continue(h.ret)
  /\ out' = [out EXCEPT !.fetch = @ + 1, !.cache = @ + 1]
  /\ UNCHANGED <<req, dedupVars, fanVars, serial, mu>>

\* the end of handleBackCallback: FormatDealMessage, buildInlineKeyboard,
\* sendCallbackResponse
handleBackRespond(mode) ==
  /\ h.pc = "respond"
  /\ h' = [h EXCEPT !.pc = "done"]
  /\ out' = [out EXCEPT !.view = "search", !.minted = replyMarkup(h.cb),
                         !.edits = @ + sendCallbackResponse(mode)]
  /\ UNCHANGED <<req, cacheVars, dedupVars, fanVars, serial, mu>>

\* routeCallback and the end of HandleCallbackQuery: the view builder of the
\* type (fetchReviews for Details and HLTB, GetHltbData for HLTB; hltbOk is
\* whether GetHltbData succeeds), an empty message ends the handler, else
\* sendCallbackResponse
routeCallback(hltbOk, mode) ==
  /\ h.pc = "route"
  /\ h' = [h EXCEPT !.pc = "done"]
  /\ out' =
       CASE h.cb.Type = "Details" ->
              [out EXCEPT !.view = "details", !.fetch = @ + 1,
                          !.minted = replyMarkup(h.cb),
                          !.edits = @ + sendCallbackResponse(mode)]
         [] h.cb.Type = "Requirements" ->
              [out EXCEPT !.view = "requirements", !.minted = replyMarkup(h.cb),
                          !.edits = @ + sendCallbackResponse(mode)]
         [] h.cb.Type = "HLTB" /\ hltbOk ->
              [out EXCEPT !.view = "hltb", !.fetch = @ + 2,
                          !.minted = replyMarkup(h.cb),
                          !.edits = @ + sendCallbackResponse(mode)]
         [] OTHER ->
              [out EXCEPT !.fetch = @ + 2]
  /\ UNCHANGED <<req, cacheVars, dedupVars, fanVars, serial, mu>>

NoRequest == [data |-> <<>>, from |-> 0, cache0 |-> EmptyMap]

NoHandler == [pc |-> "none", cb |-> NoCallback, ret |-> "none"]

NoOutput ==
  [answers |-> <<>>, view |-> "none", cache |-> 0, fetch |-> 0, edits |-> 0,
   cached |-> FALSE, minted |-> {}]

\* no callback query is being handled
InitNoRouter ==
  /\ req = NoRequest
  /\ h = NoHandler
  /\ out = NoOutput

\* the caches a callback can meet at time t: empty, or the details of
\* CachedApp stored by a Set at some time up to t
CachesAt(t) == {EmptyMap} \cup {Put(EmptyMap, CachedApp, NewEntry("v1", t0)) : t0 \in 0..t}

\* a callback query arrives: any data, any sender, any time, any such cache
InitRouter ==
  /\ \E dat \in CallbackDatas, from \in UserIDs, t \in 0..MaxTime :
       \E c \in CachesAt(t) :
         /\ now = t
         /\ data = c
         /\ req = [data |-> dat, from |-> from, cache0 |-> c]
  /\ caller = [p \in {Handler} |-> Idle]
  /\ ev = Event("Init", NoCaller, NoKey, Zero, FALSE, {}, FALSE)
  /\ h = [pc |-> "start", cb |-> NoCallback, ret |-> "none"]
  /\ out = NoOutput
  /\ InitDedup
  /\ InitNoFan
  /\ serial = NoSerial
  /\ mu = NoLocks

NextRouter ==
  \/ HandleCallbackQuery
  \/ \E keySet \in BOOLEAN, found \in BOOLEAN : handleMySteamCallback(keySet, found)
  \/ handleBackCallback
  \/ handleBackCached
  \/ GetFullSteamAppDetails
  \/ GetFullSteamAppDetailsCached
  \/ fetchSteamAppDetailsErr
  \/ \E v \in Values : fetchSteamAppDetails(v)
  \/ \E mode \in Modes : handleBackRespond(mode)
  \/ \E hltbOk \in BOOLEAN, mode \in Modes : routeCallback(hltbOk, mode)

SpecRouter == InitRouter /\ [][NextRouter]_vars

\* ------------------------------------------------------------------------
\* HandleCallbackQuery sharing the app-details cache with other interaction
\* events (inline queries and other callbacks, which Get, Set and GetOrFetch
\* entries of the same cache) while time passes

\* the other goroutines that use the cache
Others == {"c1"}

\* the app IDs the tokens and the other goroutines refer to
AppIDs == {<<"1">>, <<"2">>, <<"a">>}

\* the tokens the bot mints for CachedApp, "<prefix><appID>_<userID>", one
\* per prefix and user
MintedDatas ==
  {p \o CachedApp \o <<"_">> \o uid : p \in DOMAIN prefixes, uid \in {<<"1">>, <<"2">>}}

\* a callback query arrives at time 0, the cache being empty or holding the
\* details of CachedApp
InitRouterShared ==
  /\ \E dat \in MintedDatas, from \in UserIDs, c \in CachesAt(0) :
       /\ data = c
       /\ req = [data |-> dat, from |-> from, cache0 |-> c]
  /\ now = 0
  /\ caller = [p \in {Handler} \cup Others |-> Idle]
  /\ ev = Event("Init", NoCaller, NoKey, Zero, FALSE, {}, FALSE)
  /\ h = [pc |-> "start", cb |-> NoCallback, ret |-> "none"]
  /\ out = NoOutput
  /\ InitDedup
  /\ InitNoFan
  /\ serial = NoSerial
  /\ mu = NoLocks

\* a step of another goroutine on the cache (a Set of the details it fetched,
\* or a Get), or of the clock
OtherStep ==
  \/ \E p \in Others, k \in AppIDs : Set(p, k, "v2")
  \/ \E p \in Others, k \in AppIDs : GetRead(p, k, "Get")
  \/ \E p \in Others : GetFinish(p)
  \/ Tick

NextRouterShared ==
  \/ NextRouter
  \/ OtherStep /\ UNCHANGED <<dedupVars, fanVars, routerVars, serial, mu>>

SpecRouterShared == InitRouterShared /\ [][NextRouterShared]_vars

\* ------------------------------------------------------------------------
\* The critical sections of TTLCache and of the deals routine, lock by lock:
\* every Lock, RLock, Unlock and RUnlock is a step of its own, and so is the
\* start and the end of every network call. A goroutine is at one of
\*   caller[p].pc: idle, rlocked (Get holds RLock), read (Get has read the
\*     entry), dlock (Get waits for Lock), deleting (Get holds Lock), fetch
\*     (inside fetch()), slock (Set waits for Lock), setting (Set holds Lock);
\*   routine.pc: wait, catalog (inside GetCheapSharkDeals), initlock, init
\*     (initializeDealsCache holds Lock), loop, sentcheck (isAlreadySent holds
\*     RLock), sendDeal, appinfo (inside GetSteamAppInfo), message (inside
\*     b.SendMessage), marklock, mark (markAsSent holds Lock).
\* ev and sent are not kept in this specification.

\* the goroutine of SendDealsRoutine
Deals == "deals"

\* the goroutines: one handling interaction events, and the deals routine
Goroutines == {"c1", Deals}

\* deal.SteamAppID: the app of a deal
SteamAppID(dealID) == CASE dealID = "d1" -> "a" [] dealID = "d2" -> "b" [] OTHER -> "c"

\* the deals the catalog lists here, the lists it may return, and the apps
\* whose details are asked for
LockDeals == {"d1", "d2"}
LockDealLists == {l \in DealLists : Range(l) \subseteq LockDeals}
LockKeys == {SteamAppID(d) : d \in LockDeals}

\* sync.RWMutex: Lock and RLock block until these hold
canLock(l) == l.w = NoCaller /\ l.r = {}
canRLock(l) == l.w = NoCaller

\* p holds the mutex, for writing or for reading
Holds(l, p) == l.w = p \/ p \in l.r

LockFrame == UNCHANGED <<ev, sent, fanVars, routerVars, serial>>

\* the deals routine when its GetSteamAppInfo has returned: on an error
\* sendDeal returns it and the loop continues, else the message is sent
Returned(p, ok) ==
  routine' = IF p # Deals THEN routine
             ELSE IF ok THEN [routine EXCEPT !.pc = "message"]
             ELSE [routine EXCEPT !.pc = "loop", !.idx = @ + 1]

\* GetOrFetch is called, Get takes c.mu.RLock(); the deals routine calls it
\* from sendDeal (GetSteamAppInfo), for the app of the deal
GetRLock(p, k) ==
  /\ caller[p].pc = "idle"
  /\ p = Deals => routine.pc = "sendDeal" /\ k = SteamAppID(routine.deals[routine.idx])
  /\ canRLock(mu.cache)
  /\ mu' = [mu EXCEPT !.cache.r = @ \cup {p}]
  /\ caller' = [caller EXCEPT ![p] = [pc |-> "rlocked", op |-> "GetOrFetch", key |-> k,
                                      snap |-> NoEntry]]
  /\ routine' = IF p = Deals THEN [routine EXCEPT !.pc = "appinfo"] ELSE routine
  /\ UNCHANGED <<data, now, sentPosts>>
  /\ LockFrame

\* (mutant) Get reads the entry and keeps the read lock (as if RUnlock were
\* deferred to the return of GetOrFetch and never reached)
GetKeepsRLock(p) ==
  /\ caller[p].pc = "rlocked"
  /\ caller' = [caller EXCEPT ![p].pc = "read",
                              ![p].snap = IF caller[p].key \in DOMAIN data
                                          THEN data[caller[p].key] ELSE NoEntry]
  /\ UNCHANGED <<data, now, sentPosts, routine, mu>>
  /\ LockFrame

\* Get: entry, exists := c.data[key]; c.mu.RUnlock()
GetRUnlock(p) ==
  /\ caller[p].pc = "rlocked"
  /\ caller' = [caller EXCEPT ![p].pc = "read",
                              ![p].snap = IF caller[p].key \in DOMAIN data
                                          THEN data[caller[p].key] ELSE NoEntry]
  /\ mu' = [mu EXCEPT !.cache.r = @ \ {p}]
  /\ UNCHANGED <<data, now, sentPosts, routine>>
  /\ LockFrame

\* Get outside the lock: absent means a miss (GetOrFetch calls fetch()),
\* expired means the delete, else GetOrFetch returns the cached value
GetTest(p) ==
  /\ caller[p].pc = "read"
  /\ IF caller[p].snap = NoEntry
     THEN caller' = [caller EXCEPT ![p].pc = "fetch"] /\ routine' = routine
     ELSE IF Expired(caller[p].snap, now)
     THEN caller' = [caller EXCEPT ![p].pc = "dlock"] /\ routine' = routine
     ELSE caller' = [caller EXCEPT ![p] = Idle] /\ Returned(p, TRUE)
  /\ UNCHANGED <<data, now, sentPosts, mu>>
  /\ LockFrame

\* Get, expired entry: c.mu.Lock()
GetLock(p) ==
  /\ caller[p].pc = "dlock"
  /\ canLock(mu.cache)
  /\ mu' = [mu EXCEPT !.cache.w = p]
  /\ caller' = [caller EXCEPT ![p].pc = "deleting"]
  /\ UNCHANGED <<data, now, sentPosts, routine>>
  /\ LockFrame

\* Get, expired entry: delete(c.data, key); c.mu.Unlock(); then fetch()
GetUnlock(p) ==
  /\ caller[p].pc = "deleting"
  /\ data' = Delete(data, caller[p].key)
  /\ mu' = [mu EXCEPT !.cache.w = NoCaller]
  /\ caller' = [caller EXCEPT ![p].pc = "fetch", ![p].snap = NoEntry]
  /\ UNCHANGED <<now, sentPosts, routine>>
  /\ LockFrame

\* fetch() (the HTTP call of fetchSteamAppDetails) returns an error
fetchReturnsErr(p) ==
  /\ caller[p].pc = "fetch"
  /\ caller' = [caller EXCEPT ![p] = Idle]
  /\ Returned(p, FALSE)
  /\ UNCHANGED <<data, now, sentPosts, mu>>
  /\ LockFrame

\* fetch() returns v; GetOrFetch calls c.Set(key, v)
fetchReturns(p, v) ==
  /\ caller[p].pc = "fetch"
  /\ caller' = [caller EXCEPT ![p].pc = "slock", ![p].snap = CacheEntry(v, -1)]
  /\ UNCHANGED <<data, now, sentPosts, routine, mu>>
  /\ LockFrame

\* Set: c.mu.Lock()
SetLock(p) ==
  /\ caller[p].pc = "slock"
  /\ canLock(mu.cache)
  /\ mu' = [mu EXCEPT !.cache.w = p]
  /\ caller' = [caller EXCEPT ![p].pc = "setting"]
  /\ UNCHANGED <<data, now, sentPosts, routine>>
  /\ LockFrame

\* Set: the cleanup, the insertion, the deferred c.mu.Unlock(); GetOrFetch
\* returns the value
SetUnlock(p) ==
  /\ caller[p].pc = "setting"
  /\ \E entries \in SetOrders(data, now) :
       data' = SetData(data, caller[p].key, caller[p].snap.Data, now, entries)
  /\ mu' = [mu EXCEPT !.cache.w = NoCaller]
  /\ caller' = [caller EXCEPT ![p] = Idle]
  /\ Returned(p, TRUE)
  /\ UNCHANGED <<now, sentPosts>>
  /\ LockFrame

\* checkAndSendDeals calls GetCheapSharkDeals (an HTTP call)
GetCheapSharkDealsCall ==
  /\ routine.pc = "wait"
  /\ routine' = [routine EXCEPT !.pc = "catalog"]
  /\ UNCHANGED <<data, now, caller, sentPosts, mu>>
  /\ LockFrame

\* GetCheapSharkDeals returns an error: checkAndSendDeals returns
GetCheapSharkDealsErr ==
  /\ routine.pc = "catalog"
  /\ routine' = Waiting
  /\ UNCHANGED <<data, now, caller, sentPosts, mu>>
  /\ LockFrame

\* GetCheapSharkDeals returns the deals
GetCheapSharkDealsOk(list) ==
  /\ routine.pc = "catalog"
  /\ routine' = [pc |-> "initlock", deals |-> list, idx |-> 1]
  /\ UNCHANGED <<data, now, caller, sentPosts, mu>>
  /\ LockFrame

\* initializeDealsCache: sentPostsMu.Lock()
initializeDealsCacheLock ==
  /\ routine.pc = "initlock"
  /\ canLock(mu.sentPosts)
  /\ mu' = [mu EXCEPT !.sentPosts.w = Deals]
  /\ routine' = [routine EXCEPT !.pc = "init"]
  /\ UNCHANGED <<data, now, caller, sentPosts>>
  /\ LockFrame

\* initializeDealsCache: the body and the deferred sentPostsMu.Unlock()
initializeDealsCacheUnlock ==
  /\ routine.pc = "init"
  /\ IF Size(sentPosts) > 0
     THEN /\ \E entries \in cleanupOrders(sentPosts) :
               sentPosts' = steadyPosts(sentPosts, entries)
          /\ routine' = [routine EXCEPT !.pc = "loop"]
     ELSE /\ sentPosts' = bulkMark(routine.deals, now)
          /\ routine' = Waiting
  /\ mu' = [mu EXCEPT !.sentPosts.w = NoCaller]
  /\ UNCHANGED <<data, now, caller>>
  /\ LockFrame

\* the loop over the deals is over: checkAndSendDeals returns
checkAndSendDealsReturns ==
  /\ routine.pc = "loop"
  /\ routine.idx > Len(routine.deals)
  /\ routine' = Waiting
  /\ UNCHANGED <<data, now, caller, sentPosts, mu>>
  /\ LockFrame

\* isAlreadySent: sentPostsMu.RLock()
isAlreadySentRLock ==
  /\ routine.pc = "loop"
  /\ routine.idx <= Len(routine.deals)
  /\ canRLock(mu.sentPosts)
  /\ mu' = [mu EXCEPT !.sentPosts.r = @ \cup {Deals}]
  /\ routine' = [routine EXCEPT !.pc = "sentcheck"]
  /\ UNCHANGED <<data, now, caller, sentPosts>>
  /\ LockFrame

\* isAlreadySent: the lookup and the deferred RUnlock; a deal already sent
\* is skipped, else sendDeal is called
isAlreadySentRUnlock ==
  /\ routine.pc = "sentcheck"
  /\ mu' = [mu EXCEPT !.sentPosts.r = @ \ {Deals}]
  /\ routine' = IF isAlreadySent(sentPosts, routine.deals[routine.idx])
                THEN [routine EXCEPT !.pc = "loop", !.idx = @ + 1]
                ELSE [routine EXCEPT !.pc = "sendDeal"]
  /\ UNCHANGED <<data, now, caller, sentPosts>>
  /\ LockFrame

\* sendDeal: b.SendMessage fails, the deal is not marked
SendMessageErr ==
  /\ routine.pc = "message"
  /\ routine' = [routine EXCEPT !.pc = "loop", !.idx = @ + 1]
  /\ UNCHANGED <<data, now, caller, sentPosts, mu>>
  /\ LockFrame

\* sendDeal: b.SendMessage succeeds, markAsSent is called
SendMessageOk ==
  /\ routine.pc = "message"
  /\ routine' = [routine EXCEPT !.pc = "marklock"]
  /\ UNCHANGED <<data, now, caller, sentPosts, mu>>
  /\ LockFrame

\* markAsSent: sentPostsMu.Lock()
markAsSentLock ==
  /\ routine.pc = "marklock"
  /\ canLock(mu.sentPosts)
  /\ mu' = [mu EXCEPT !.sentPosts.w = Deals]
  /\ routine' = [routine EXCEPT !.pc = "mark"]
  /\ UNCHANGED <<data, now, caller, sentPosts>>
  /\ LockFrame

\* markAsSent: the insertion and the deferred sentPostsMu.Unlock()
markAsSentUnlock ==
  /\ routine.pc = "mark"
  /\ sentPosts' = markAsSent(sentPosts, routine.deals[routine.idx], now)
  /\ mu' = [mu EXCEPT !.sentPosts.w = NoCaller]
  /\ routine' = [routine EXCEPT !.pc = "loop", !.idx = @ + 1]
  /\ UNCHANGED <<data, now, caller>>
  /\ LockFrame

\* time passes
TickLocks ==
  /\ Tick
  /\ UNCHANGED <<dedupVars, fanVars, routerVars, serial, mu>>

InitLocks ==
  /\ data = EmptyMap
  /\ now = 0
  /\ caller = [p \in Goroutines |-> Idle]
  /\ ev = Event("Init", NoCaller, NoKey, Zero, FALSE, {}, FALSE)
  /\ InitDedup
  /\ InitNoFan
  /\ InitNoRouter
  /\ serial = NoSerial
  /\ mu = NoLocks

NextLocks ==
  \/ \E p \in Goroutines, k \in LockKeys : GetRLock(p, k)
  \/ \E p \in Goroutines : GetRUnlock(p)
  \/ \E p \in Goroutines : GetTest(p)
  \/ \E p \in Goroutines : GetLock(p)
  \/ \E p \in Goroutines : GetUnlock(p)
  \/ \E p \in Goroutines : fetchReturnsErr(p)
  \/ \E p \in Goroutines : fetchReturns(p, "v1")
  \/ \E p \in Goroutines : SetLock(p)
  \/ \E p \in Goroutines : SetUnlock(p)
  \/ GetCheapSharkDealsCall
  \/ GetCheapSharkDealsErr
  \/ \E list \in LockDealLists : GetCheapSharkDealsOk(list)
  \/ initializeDealsCacheLock
  \/ initializeDealsCacheUnlock
  \/ checkAndSendDealsReturns
  \/ isAlreadySentRLock
  \/ isAlreadySentRUnlock
  \/ SendMessageErr
  \/ SendMessageOk
  \/ markAsSentLock
  \/ markAsSentUnlock
  \/ TickLocks

SpecLocks == InitLocks /\ [][NextLocks]_vars

\* ------------------------------------------------------------------------
\* The ticker of SendDealsRoutine
\*
\* SendDealsRoutine calls checkAndSendDeals once, then once for every tick it
\* receives from ticker.C. ticker.C holds at most one tick: a tick that fires
\* while one is still waiting to be received is dropped. The clock now counts
\* the periods of the ticker. The routine is at one of
\*   routine.pc: start (before the first call), fetch (inside
\*     GetCheapSharkDeals), loop (inside the loop over the deals), wait
\*     (blocked on ticker.C).
\* serial records, for this specification,
\*   C         the number of ticks waiting in ticker.C (0 or 1)
\*   received  the number of ticks received by the routine
\*   started   the number of calls of checkAndSendDeals
\*   failed    the latest call of checkAndSendDeals that returned had failed

NoTicks == [C |-> 0, received |-> 0, started |-> 0, failed |-> FALSE]

\* the ticker fires: one period has passed
tickerFires ==
  /\ now < MaxPolls
  /\ now' = now + 1
  /\ serial' = [serial EXCEPT !.C = 1]
  /\ UNCHANGED <<data, caller, ev, dedupVars, fanVars, routerVars, mu>>

\* SendDealsRoutine: the call of checkAndSendDeals before the loop
SendDealsRoutineFirst ==
  /\ routine.pc = "start"
  /\ routine' = [routine EXCEPT !.pc = "fetch"]
  /\ serial' = [serial EXCEPT !.started = @ + 1]
  /\ UNCHANGED <<data, now, caller, ev, sentPosts, sent, fanVars, routerVars, mu>>

\* SendDealsRoutine: for range ticker.C, one tick is received and
\* checkAndSendDeals is called
SendDealsRoutineTick ==
  /\ routine.pc = "wait"
  /\ serial.C = 1
  /\ routine' = [routine EXCEPT !.pc = "fetch"]
  /\ serial' = [serial EXCEPT !.C = 0, !.received = @ + 1, !.started = @ + 1]
  /\ UNCHANGED <<data, now, caller, ev, sentPosts, sent, fanVars, routerVars, mu>>

\* (mutant) checkAndSendDeals calls itself again when the fetch failed
checkAndSendDealsErrRetries ==
  /\ routine.pc = "fetch"
  /\ serial.started <= MaxPolls
  /\ routine' = [routine EXCEPT !.pc = "fetch"]
  /\ serial' = [serial EXCEPT !.started = @ + 1, !.failed = TRUE]
  /\ sent' = [sent EXCEPT !.last = "poll_error"]
  /\ UNCHANGED <<data, now, caller, ev, sentPosts, fanVars, routerVars, mu>>

\* checkAndSendDeals when GetCheapSharkDeals fails: log and return
checkAndSendDealsErr ==
  /\ routine.pc = "fetch"
  /\ routine' = Waiting
  /\ serial' = [serial EXCEPT !.failed = TRUE]
  /\ sent' = [sent EXCEPT !.last = "poll_error"]
  /\ UNCHANGED <<data, now, caller, ev, sentPosts, fanVars, routerVars, mu>>

\* checkAndSendDeals when GetCheapSharkDeals succeeds: initializeDealsCache
\* either bulk-marks the deals (empty tracker: return) or cleans up an
\* oversized tracker and lets the loop run
checkAndSendDealsOk(list) ==
  /\ routine.pc = "fetch"
  /\ IF Size(sentPosts) > 0
     THEN /\ \E entries \in cleanupOrders(sentPosts) :
               sentPosts' = steadyPosts(sentPosts, entries)
          /\ routine' = [pc |-> "loop", deals |-> list, idx |-> 1]
          /\ sent' = [sent EXCEPT !.polls = Min(@ + 1, 3),
                                  !.first = IF sent.polls = 0 THEN list ELSE @,
                                  !.listed = list,
                                  !.tried = {},
                                  !.last = IF Size(sentPosts) > maxCacheSize
                                           THEN "cleanup" ELSE "steady"]
          /\ serial' = serial
     ELSE /\ sentPosts' = bulkMark(list, now)
          /\ routine' = Waiting
          /\ sent' = [sent EXCEPT !.polls = Min(@ + 1, 3),
                                  !.first = IF sent.polls = 0 THEN list ELSE @,
                                  !.listed = list,
                                  !.bulk = @ \cup Range(list),
                                  !.tried = {},
                                  !.last = "bulk"]
          /\ serial' = [serial EXCEPT !.failed = FALSE]
  /\ UNCHANGED <<data, now, caller, ev, fanVars, routerVars, mu>>

\* the loop is over: checkAndSendDeals returns to SendDealsRoutine
checkAndSendDealsEnd ==
  /\ routine.pc = "loop"
  /\ routine.idx > Len(routine.deals)
  /\ routine' = Waiting
  /\ sent' = [sent EXCEPT !.last = "returned"]
  /\ serial' = [serial EXCEPT !.failed = FALSE]
  /\ UNCHANGED <<data, now, caller, ev, sentPosts, fanVars, routerVars, mu>>

InitTicker ==
  /\ InitCache
  /\ sentPosts = EmptyMap
  /\ routine = [pc |-> "start", deals |-> <<>>, idx |-> 0]
  /\ sent = [polls |-> 0, first |-> <<>>, listed |-> <<>>, bulk |-> {},
             tried |-> {}, count |-> [id \in DealIDs |-> 0],
             tries |-> [id \in DealIDs |-> 0], last |-> "start"]
  /\ InitNoFan
  /\ InitNoRouter
  /\ serial = NoTicks
  /\ mu = NoLocks

NextTicker ==
  \/ tickerFires
  \/ SendDealsRoutineFirst
  \/ SendDealsRoutineTick
  \/ checkAndSendDealsErr
  \/ \E list \in LockDealLists : checkAndSendDealsOk(list)
  \/ LoopSkip
  \/ \E outcome \in SendOutcomes : LoopSend(outcome)
  \/ checkAndSendDealsEnd

SpecTicker == InitTicker /\ [][NextTicker]_vars

\* ------------------------------------------------------------------------

\* The sent-posts tracker under concurrent calls
\*
\* initializeDealsCache, isAlreadySent and markAsSent called by two
\* goroutines, lock by lock, with every delete of cleanupOldEntries a step of
\* its own. A goroutine is at one of
\*   caller[p].pc: idle, initlock (initializeDealsCache waits for Lock), init
\*     (it holds Lock), cleaning (cleanupOldEntries is deleting), initdone
\*     (the body is over, the deferred Unlock is next), sentcheck
\*     (isAlreadySent holds RLock), marklock (markAsSent waits for Lock),
\*     mark (markAsSent holds Lock).
\* serial records the cleanup pass in progress or last completed:
\*   pre   the tracker when the pass began
\*   gone  the IDs the pass selected for removal, oldest first
\*   left  the IDs of gone not yet deleted
\* The clock stands still in this specification: all entries carry the same
\* timestamp, and which of them a pass selects is decided by the order in
\* which the map is iterated, every order being possible.

\* the deal IDs the goroutines mark
TrackerDeals == DealIDs \cup {"d4"}

NoCleanup == [pre |-> EmptyMap, gone |-> <<>>, left |-> <<>>]

TrackerFrame == UNCHANGED <<data, ev, routine, sent, fanVars, routerVars>>

\* initializeDealsCache is called
TrackerInitCall(p) ==
  /\ caller[p].pc = "idle"
  /\ caller' = [caller EXCEPT ![p].pc = "initlock", ![p].op = "initializeDealsCache"]
  /\ UNCHANGED <<now, sentPosts, serial, mu>>
  /\ TrackerFrame

\* (mutant) initializeDealsCache runs its body without taking the lock
TrackerInitNoLock(p) ==
  /\ caller[p].pc = "initlock"
  /\ caller' = [caller EXCEPT ![p].pc = "init"]
  /\ UNCHANGED <<now, sentPosts, serial, mu>>
  /\ TrackerFrame

\* initializeDealsCache: sentPostsMu.Lock()
TrackerInitLock(p) ==
  /\ caller[p].pc = "initlock"
  /\ canLock(mu.sentPosts)
  /\ mu' = [mu EXCEPT !.sentPosts.w = p]
  /\ caller' = [caller EXCEPT ![p].pc = "init"]
  /\ UNCHANGED <<now, sentPosts, serial>>
  /\ TrackerFrame

\* initializeDealsCache: the tests on len(sentPosts). An oversized tracker is
\* handed to cleanupOldEntries, which sorts the entries and selects the first
\* removeCount of them; an empty tracker gets every deal of the list
TrackerInitBody(p, list) ==
  /\ caller[p].pc = "init"
  /\ IF Size(sentPosts) > maxCacheSize
     THEN \E entries \in cleanupOrders(sentPosts) :
            LET sorted == cleanupSortOuter(entries, 1, sentPosts)
                gone == SubSeq(sorted, 1, removeCount(sentPosts))
            IN /\ serial' = [pre |-> sentPosts, gone |-> gone, left |-> gone]
               /\ caller' = [caller EXCEPT ![p].pc = "cleaning"]
               /\ sentPosts' = sentPosts
     ELSE /\ sentPosts' = IF Size(sentPosts) > 0 THEN sentPosts ELSE bulkMark(list, now)
          /\ caller' = [caller EXCEPT ![p].pc = "initdone"]
          /\ serial' = serial
  /\ UNCHANGED <<now, mu>>
  /\ TrackerFrame

\* cleanupOldEntries: one delete(sentPosts, e.id) of its last loop
cleanupOldEntriesDelete(p) ==
  /\ caller[p].pc = "cleaning"
  /\ serial.left # <<>>
  /\ sentPosts' = [id \in DOMAIN sentPosts \ {Head(serial.left)} |-> sentPosts[id]]
  /\ serial' = [serial EXCEPT !.left = Tail(@)]
  /\ UNCHANGED <<now, caller, mu>>
  /\ TrackerFrame

\* cleanupOldEntries returns
cleanupOldEntriesReturns(p) ==
  /\ caller[p].pc = "cleaning"
  /\ serial.left = <<>>
  /\ caller' = [caller EXCEPT ![p].pc = "initdone"]
  /\ UNCHANGED <<now, sentPosts, serial, mu>>
  /\ TrackerFrame

\* initializeDealsCache: the deferred sentPostsMu.Unlock()
TrackerInitUnlock(p) ==
  /\ caller[p].pc = "initdone"
  /\ mu' = [mu EXCEPT !.sentPosts.w = NoCaller]
  /\ caller' = [caller EXCEPT ![p] = Idle]
  /\ UNCHANGED <<now, sentPosts, serial>>
  /\ TrackerFrame

\* isAlreadySent: sentPostsMu.RLock()
TrackerQueryRLock(p, dealID) ==
  /\ caller[p].pc = "idle"
  /\ canRLock(mu.sentPosts)
  /\ mu' = [mu EXCEPT !.sentPosts.r = @ \cup {p}]
  /\ caller' = [caller EXCEPT ![p].pc = "sentcheck", ![p].op = "isAlreadySent",
                              ![p].key = dealID]
  /\ UNCHANGED <<now, sentPosts, serial>>
  /\ TrackerFrame

\* isAlreadySent: the lookup and the deferred RUnlock
TrackerQueryRUnlock(p) ==
  /\ caller[p].pc = "sentcheck"
  /\ mu' = [mu EXCEPT !.sentPosts.r = @ \ {p}]
  /\ caller' = [caller EXCEPT ![p] = Idle]
  /\ UNCHANGED <<now, sentPosts, serial>>
  /\ TrackerFrame

\* markAsSent is called
TrackerMarkCall(p, dealID) ==
  /\ caller[p].pc = "idle"
  /\ caller' = [caller EXCEPT ![p].pc = "marklock", ![p].op = "markAsSent",
                              ![p].key = dealID]
  /\ UNCHANGED <<now, sentPosts, serial, mu>>
  /\ TrackerFrame

\* markAsSent: sentPostsMu.Lock()
TrackerMarkLock(p) ==
  /\ caller[p].pc = "marklock"
  /\ canLock(mu.sentPosts)
  /\ mu' = [mu EXCEPT !.sentPosts.w = p]
  /\ caller' = [caller EXCEPT ![p].pc = "mark"]
  /\ UNCHANGED <<now, sentPosts, serial>>
  /\ TrackerFrame

\* markAsSent: the insertion and the deferred sentPostsMu.Unlock()
TrackerMarkUnlock(p) ==
  /\ caller[p].pc = "mark"
  /\ sentPosts' = markAsSent(sentPosts, caller[p].key, now)
  /\ mu' = [mu EXCEPT !.sentPosts.w = NoCaller]
  /\ caller' = [caller EXCEPT ![p] = Idle]
  /\ UNCHANGED <<now, serial>>
  /\ TrackerFrame

InitTracker ==
  /\ InitCache
  /\ InitDedup
  /\ InitNoFan
  /\ InitNoRouter
  /\ serial = NoCleanup
  /\ mu = NoLocks

NextTracker ==
  \/ \E p \in Callers : TrackerInitCall(p)
  \/ \E p \in Callers : TrackerInitLock(p)
  \/ \E p \in Callers, list \in LockDealLists : TrackerInitBody(p, list)
  \/ \E p \in Callers : cleanupOldEntriesDelete(p)
  \/ \E p \in Callers : cleanupOldEntriesReturns(p)
  \/ \E p \in Callers : TrackerInitUnlock(p)
  \/ \E p \in Callers, dealID \in TrackerDeals : TrackerQueryRLock(p, dealID)
  \/ \E p \in Callers : TrackerQueryRUnlock(p)
  \/ \E p \in Callers, dealID \in TrackerDeals : TrackerMarkCall(p, dealID)
  \/ \E p \in Callers : TrackerMarkLock(p)
  \/ \E p \in Callers : TrackerMarkUnlock(p)

SpecTracker == InitTracker /\ [][NextTracker]_vars

\* ------------------------------------------------------------------------

\* The specifications

Init == InitCache /\ InitDedup /\ InitNoFan /\ InitNoRouter /\ serial = NoSerial /\ mu = NoLocks

Spec == Init /\ [][NextCache]_vars

SpecDedup == Init /\ [][NextDedup]_vars

InitFanout == InitCache /\ InitDedup /\ InitFan /\ InitNoRouter /\ serial = NoSerial /\ mu = NoLocks

SpecFanout == InitFanout /\ [][NextFan]_vars

SpecSerial == Init /\ [][NextSerial]_vars

SpecFanoutPanic == InitFanout /\ [][NextFanPanic]_vars

\* processSearchResults(results, userID) has made its result slice, for
\* every number of results up to MaxItems (which items they are plays no part
\* in the scheduling: they are all the same item here)
InitFanoutFair ==
  /\ InitCache
  /\ InitDedup
  /\ \E n \in 0..MaxItems :
       /\ fan = [pc |-> "loop", items |-> [i \in 1..n |-> "app1"], started |-> 0,
                 wg |-> 0, sem |-> 0]
       /\ task = [i \in 1..n |-> "new"]
       /\ inlineResults = [i \in 1..n |-> NilResult]
  /\ InitNoRouter
  /\ serial = NoSerial
  /\ mu = NoLocks

\* processSearchResults under the Go scheduler: as long as the caller or one
\* of the goroutines can take a step, one of them does (none of them panics,
\* every buildInlineResult returns)
SpecFanoutFair == InitFanoutFair /\ [][NextFan]_vars /\ WF_vars(NextFan)

\* The two structures that evict, each exercised on its own (they share no
\* state): serial.part tells which one the behaviour is about
InitEviction ==
  /\ InitCache
  /\ InitDedup
  /\ InitNoFan
  /\ InitNoRouter
  /\ serial \in {[part |-> "TTLCache"], [part |-> "sentPosts"]}
  /\ mu = NoLocks

NextEviction ==
  \/ serial.part = "TTLCache" /\ NextCache
  \/ serial.part = "sentPosts" /\ NextDedup

SpecEviction == InitEviction /\ [][NextEviction]_vars

InitRace == InitCache /\ InitDedup /\ InitNoFan /\ InitNoRouter /\ serial = NoRace /\ mu = NoLocks

SpecRace == InitRace /\ [][NextRace]_vars

\* ------------------------------------------------------------------------
\* Properties of TTLCache (checked under Spec)

\* the step taken is a step on the cache that records one of these kinds
\* (every step but Tick records its kind in ev, and Tick alone moves the clock)
Took(kinds) == now' = now /\ ev'.kind \in kinds /\ <<data, caller, ev>>' # <<data, caller, ev>>

\* C1: after any Set call completes (whoever called it, whatever the key),
\* Size() is at most maxSize. The cache starts empty and only Set adds
\* entries, so the bound is stated for every reachable state.
C1_SizeAtMostMaxSize == Size(data) <= maxSize

\* C1 witness: a Set (direct or inside GetOrFetch) has just evicted an entry
\* while another caller is in the middle of a Get, and the cache is full.
C1_Witness ==
  /\ ev.kind \in {"Set", "FetchSet"}
  /\ ev.evicted # {}
  /\ Size(data) = maxSize
  /\ \E p \in Callers : caller[p].pc = "get"

\* C8: a Get(key) that directly follows a completed Set(key, value), before
\* ttl has elapsed, returns (value, true) and leaves the cache unchanged.
\* Stated as the three links of that run: the Set stores value with expiry
\* now + ttl; the read that directly follows it takes exactly that entry; the
\* Get that finishes before the expiry returns it and changes nothing.
C8_GetAfterSetHits ==
  [][ /\ Took({"Set"})
           => /\ ev'.key \in DOMAIN data'
              /\ data'[ev'.key] = CacheEntry(ev'.val, now + ttl)
      /\ (Took({"GetRead", "GetAbsent"}) /\ ev.kind \in {"Set", "FetchSet"}
            /\ ev.key = ev'.key)
           => /\ ev'.kind = "GetRead"
              /\ caller'[ev'.p].pc = "get"
              /\ caller'[ev'.p].snap = data[ev'.key]
              /\ caller'[ev'.p].snap.Data = ev.val
      /\ (Took({"GetHit", "GetExpired"}) /\ ev.kind = "GetRead" /\ ev.p = ev'.p
            /\ ev.chain /\ now < caller[ev'.p].snap.ExpiresAt)
           => /\ ev'.kind = "GetHit"
              /\ ev'.val = caller[ev'.p].snap.Data
              /\ ev'.ok
              /\ data' = data
    ]_vars

\* C8 witness: a Get returned a hit directly after the Set of its key.
C8_Witness == ev.kind = "GetHit" /\ ev.chain /\ ev.val \in Values

\* C9: a Get on an entry whose ttl has elapsed returns (zero, false), deletes
\* that entry and so decreases Size() by exactly one, and leaves every other
\* entry untouched; a Get on an absent key returns (zero, false) and changes
\* nothing.
C9_GetExpiredDeletes ==
  [][ /\ (Took({"GetHit", "GetExpired"})
            /\ caller[ev'.p].key \in DOMAIN data
            /\ data[caller[ev'.p].key] = caller[ev'.p].snap
            /\ now > caller[ev'.p].snap.ExpiresAt)
           => /\ ev'.kind = "GetExpired" /\ ev'.val = Zero /\ ~ev'.ok
              /\ ev'.key = caller[ev'.p].key
              /\ ev'.key \notin DOMAIN data'
              /\ Size(data') = Size(data) - 1
              /\ \A k \in DOMAIN data \ {ev'.key} :
                   k \in DOMAIN data' /\ data'[k] = data[k]
              /\ DOMAIN data' \subseteq DOMAIN data
      /\ (Took({"GetRead", "GetAbsent"}) /\ ev'.key \notin DOMAIN data)
           => /\ ev'.kind = "GetAbsent" /\ ev'.val = Zero /\ ~ev'.ok
              /\ caller'[ev'.p].pc # "get"
              /\ data' = data
    ]_vars

\* C9 witness: a direct Get has just deleted its expired entry while another
\* entry stays in the cache.
C9_Witness ==
  /\ ev.kind = "GetExpired"
  /\ ev.evicted = {ev.key}
  /\ caller[ev.p] = Idle
  /\ Size(data) >= 1

\* C10: when GetOrFetch misses and the producer fails, the error is returned,
\* nothing is stored under key, no entry is added, changed or removed, and a
\* Get of key that directly follows still misses.
C10_FetchFailKeepsCache ==
  [][ /\ (caller' # caller /\ \E p \in Callers :
            /\ caller[p].pc = "fetch" /\ caller'[p].pc = "idle"
            /\ ev'.kind # "FetchSet")
           => /\ ev'.kind = "FetchErr" /\ ev'.val = Zero /\ ~ev'.ok
              /\ caller[ev'.p].pc = "fetch" /\ ev'.key = caller[ev'.p].key
              /\ data' = data
      /\ (Took({"FetchErr"}) /\ ev.kind \in {"GetAbsent", "GetExpired"}
            /\ ev.p = ev'.p)
           => ev'.key \notin DOMAIN data'
      /\ (Took({"GetRead", "GetAbsent"}) /\ ev.kind = "FetchErr"
            /\ ev.key = ev'.key /\ ev.chain)
           => ev'.kind = "GetAbsent" /\ ~ev'.ok
    ]_vars

\* C10 witness: a GetOrFetch has just returned the producer's error, directly
\* after its miss, while the cache holds entries of other keys.
C10_Witness ==
  /\ ev.kind = "FetchErr"
  /\ ev.chain
  /\ ev.key \notin DOMAIN data
  /\ Size(data) >= 1

\* the keys whose entries have expired at time t
ExpiredKeys(d, t) == {x \in DOMAIN d : t > d[x].ExpiresAt}

\* C12: a Set called with at least maxSize entries first removes every
\* expired entry; only if the cache is still at or over capacity does it
\* remove more, and then exactly min(cleanupN, entries left) of them, those
\* with the soonest ExpiresAt: no removed entry expires later than one that
\* is kept. A Set called below capacity removes nothing, and entries that are
\* not removed are not changed. In particular (maxSize = 2, cleanupN = 1)
\* a Set of a third key into a full cache of unexpired entries leaves 2
\* entries, the new key and the later-expiring old one, and a Get of the
\* removed key that directly follows misses.
C12_SetEvictsSoonestExpiring ==
  [][ /\ Took({"Set", "FetchSet"})
           => LET k == ev'.key
                  gone == ev'.evicted
                  expired == ExpiredKeys(data, now)
                  live == DOMAIN data \ expired
              IN /\ gone \ {k} = DOMAIN data \ DOMAIN data'
                 /\ gone \subseteq DOMAIN data
                 /\ k \in DOMAIN data'
                 /\ \A y \in DOMAIN data \ (gone \cup {k}) : data'[y] = data[y]
                 /\ Size(data) < maxSize => gone = {}
                 /\ Size(data) >= maxSize
                      => /\ expired \subseteq gone
                         /\ IF Cardinality(live) < maxSize
                            THEN gone = expired
                            ELSE /\ Cardinality(gone \ expired) = Min(cleanupN, Cardinality(live))
                                 /\ \A x \in gone \ expired, y \in live \ gone :
                                      data[x].ExpiresAt <= data[y].ExpiresAt
                 /\ (Size(data) = maxSize /\ expired = {} /\ k \notin DOMAIN data)
                      => /\ Size(data') = maxSize - cleanupN + 1
                         /\ Cardinality(gone) = cleanupN
                         /\ DOMAIN data' = (DOMAIN data \ gone) \cup {k}
      /\ (Took({"GetRead", "GetAbsent"}) /\ ev.kind \in {"Set", "FetchSet"}
            /\ ev'.key \in ev.evicted /\ ev'.key # ev.key)
           => ev'.kind = "GetAbsent" /\ ~ev'.ok /\ data' = data
    ]_vars

\* C12 witness: a Set of a new key into a full cache has removed exactly one
\* unexpired entry and kept an older entry that expires later than now - 1.
C12_Witness ==
  /\ ev.kind = "Set"
  /\ Cardinality(ev.evicted) = cleanupN
  /\ ev.key \notin ev.evicted
  /\ now > 0
  /\ Size(data) = maxSize
  /\ \E y \in DOMAIN data : y # ev.key /\ data[y].ExpiresAt = now

\* C27: expiry is inclusive at the boundary: a Get whose expiry test is made
\* at or after the ExpiresAt of the stored entry (now >= ExpiresAt) returns
\* (zero, false) and deletes the entry, and the cleanup of a Set on a full
\* cache removes every entry with ExpiresAt at or before now.
C27_ExpiryInclusive ==
  [][ /\ (Took({"GetHit", "GetExpired"})
            /\ caller[ev'.p].key \in DOMAIN data
            /\ data[caller[ev'.p].key] = caller[ev'.p].snap
            /\ now >= caller[ev'.p].snap.ExpiresAt)
           => /\ ev'.kind = "GetExpired" /\ ev'.val = Zero /\ ~ev'.ok
              /\ ev'.key \notin DOMAIN data'
      /\ (Took({"Set", "FetchSet"}) /\ Size(data) >= maxSize)
           => \A k \in DOMAIN data \ {ev'.key} :
                data[k].ExpiresAt <= now => k \notin DOMAIN data'
    ]_vars

\* C28: every entry expires ttl after the most recent Set of its key: a Set
\* (direct or inside GetOrFetch) stores its key with ExpiresAt = now + ttl,
\* also when the key was present, and no other step -- a Get, a GetOrFetch
\* hit, a failed fetch, the passing of time -- adds an entry or changes the
\* value or expiry of one; no entry expires later than ttl from now.
C28_ExpiryFixedAtSet ==
  [][ /\ \A k \in DOMAIN data' :
           IF Took({"Set", "FetchSet"}) /\ ev'.key = k
           THEN data'[k] = CacheEntry(ev'.val, now + ttl)
           ELSE k \in DOMAIN data /\ data'[k] = data[k]
      /\ \A k \in DOMAIN data : data[k].ExpiresAt \in ttl..(now + ttl)
    ]_vars

\* C28 witness: a Get has just returned a hit on an entry set earlier, and
\* the entry still expires less than ttl from now.
C28_Witness ==
  /\ ev.kind = "GetHit"
  /\ ev.key \in DOMAIN data
  /\ data[ev.key].Data = ev.val
  /\ data[ev.key].ExpiresAt < now + ttl

\* C33: Get is safe under a concurrent Set: the entry a Get deletes is
\* expired. When a Get that read an expired entry is interleaved with a Set
\* that stores a fresh entry for the same key, the fresh entry is not removed
\* by that Get.
C33_GetDeletesOnlyExpired ==
  [][ Took({"GetExpired"})
        => \A k \in DOMAIN data \ DOMAIN data' : Expired(data[k], now)
    ]_vars

\* C36: after Set(key, value) completes, key is in the cache with that value
\* and an expiry of ttl after the Set, in every case: also when the Set
\* evicted entries, when key was already present at capacity, and when key's
\* previous entry was among the entries the Set evicted.
C36_SetStoresKey ==
  [][ Took({"Set", "FetchSet"})
        => /\ ev'.key \in DOMAIN data'
           /\ data'[ev'.key] = CacheEntry(ev'.val, now + ttl)
           /\ Size(data') <= maxSize
    ]_vars

\* C36 witness: a Set on a full cache has just evicted the previous entry of
\* its own key by removeOldest (up to time ttl no entry has expired), and the
\* key holds the new value.
C36_Witness ==
  /\ ev.kind = "Set"
  /\ ev.key \in ev.evicted
  /\ now <= ttl
  /\ Size(data) = maxSize
  /\ data[ev.key] = CacheEntry(ev.val, now + ttl)

\* ------------------------------------------------------------------------
\* Properties of serial GetOrFetch calls (checked under SpecSerial)

\* the clock when the call tested the expiry (when it found the key absent:
\* when it read the map)
TestedAt == IF serial.at >= 0 THEN serial.at ELSE serial.t0

\* C11: when GetOrFetch calls are made one after another, a call whose key is
\* absent or already expired invokes fetch() exactly once and, when fetch()
\* succeeds, stores the value (with expiry ttl after the store) and returns
\* it; a call whose key is present and not yet expired invokes fetch() zero
\* times and returns the cached value; and the call that directly follows a
\* storing call, for the same key and before the expiry, is served the stored
\* value from the cache. No call invokes fetch() more than once.
C11_SerialGetOrFetch ==
  serial.st = "returned" =>
    /\ serial.fetches <= 1
    /\ (~serial.present \/ serial.t0 > serial.exp) => serial.fetches = 1
    /\ (serial.present /\ TestedAt < serial.exp)
         => /\ serial.fetches = 0
            /\ ~serial.err
            /\ serial.key \in DOMAIN data
            /\ serial.val = data[serial.key].Data
            /\ serial.val \in Values
    /\ (serial.fetches = 1 /\ ~serial.err)
         => /\ serial.stored >= 0
            /\ serial.key \in DOMAIN data
            /\ data[serial.key] = CacheEntry(serial.val, serial.stored + ttl)
            /\ serial.val \in Values
    /\ (serial.fetches = 1 /\ serial.err) => serial.stored = -1 /\ serial.val = Zero
    /\ (serial.prev.key = serial.key /\ TestedAt < serial.prev.exp)
         => /\ serial.fetches = 0
            /\ ~serial.err
            /\ serial.val = serial.prev.val

\* C11 witness: a call has been served, without fetch(), the value the call
\* before it fetched and stored.
C11_Witness ==
  /\ serial.st = "returned"
  /\ serial.prev.key = serial.key
  /\ serial.prev.val \in Values
  /\ serial.val = serial.prev.val
  /\ serial.fetches = 0
  /\ Size(data) = maxSize

\* ------------------------------------------------------------------------
\* Properties of concurrent GetOrFetch calls (checked under SpecRace)

\* both calls of the pair have returned
BothReturned == DOMAIN serial.ret = Callers

\* C25 (as stated): whenever two GetOrFetch calls were inside the producer
\* for the same key at once, both get a successful value, and when both have
\* returned the key has one entry, holding the value of the later Set.
C25_BothSucceed ==
  BothReturned =>
    /\ \A p \in Callers : serial.ret[p].ok /\ serial.ret[p].val \in Values
    /\ serial.entry = NewEntry(serial.ret[serial.last].val, serial.at)

\* C25 (amended): whenever two GetOrFetch calls were inside the producer for
\* the same key at once, each call whose producer succeeded returns the
\* value of its own producer, a call whose producer failed returns the error
\* and stores nothing, and when both have returned after successful producer
\* calls the key has one entry, holding the value of the later Set and
\* expiring ttl after it.
C25_BothSucceedWhenProducersDo ==
  /\ \A p \in DOMAIN serial.ret :
       IF serial.ret[p].ok THEN serial.ret[p].val \in Values
       ELSE serial.ret[p].val = Zero
  /\ (BothReturned /\ serial.ret[serial.last].ok)
       => serial.entry = NewEntry(serial.ret[serial.last].val, serial.at)

\* C25 witness: both calls invoked the producer for the same key, got
\* different values, and both have returned.
C25_Witness ==
  /\ BothReturned
  /\ \A p \in Callers : serial.ret[p].ok
  /\ serial.ret["c1"].val # serial.ret["c2"].val
  /\ serial.key \in DOMAIN data

\* ------------------------------------------------------------------------
\* Properties of the critical sections (checked under SpecLocks)

\* the mutexes p holds
HeldBy(p) == {m \in DOMAIN mu : Holds(mu[m], p)}

\* C26: no lock is held across a network call. A goroutine inside fetch()
\* (the producer of GetOrFetch) holds no mutex; the deals routine holds none
\* inside GetCheapSharkDeals and inside b.SendMessage, and does not hold
\* sentPostsMu anywhere inside sendDeal; a mutex is held only by a goroutine
\* that is reading or writing the map it guards.
C26_NoLockAcrossNetwork ==
  /\ \A p \in Goroutines : caller[p].pc = "fetch" => HeldBy(p) = {}
  /\ routine.pc \in {"catalog", "message"} => HeldBy(Deals) = {}
  /\ routine.pc \in {"sendDeal", "appinfo", "message"} => ~Holds(mu.sentPosts, Deals)
  /\ \A p \in Goroutines :
       Holds(mu.cache, p) <=> caller[p].pc \in {"rlocked", "deleting", "setting"}
  /\ Holds(mu.sentPosts, Deals) <=> routine.pc \in {"init", "sentcheck", "mark"}
  /\ ~Holds(mu.sentPosts, "c1")

\* C26 witness: the deals routine is inside the producer of its detail fetch
\* while the other goroutine holds the cache lock for its Set.
C26_Witness ==
  /\ routine.pc = "appinfo"
  /\ caller[Deals].pc = "fetch"
  /\ mu.cache.w = "c1"
  /\ caller["c1"].pc = "setting"
  /\ Size(sentPosts) > 0

\* ------------------------------------------------------------------------
\* Properties of the dedup tracker (checked under SpecDedup)

\* a successful poll has just completed
PollDone == routine.pc = "wait" /\ sent.last \in {"bulk", "returned"}

\* C3: starting from an empty tracker, the first successful poll that returns
\* N items marks all N as seen and delivers nothing; a second poll that
\* returns the same N items plus one new item attempts delivery of exactly
\* the new item.
C3_FirstPollThenOneNew ==
  /\ (sent.polls = 1 /\ PollDone)
       => /\ DOMAIN sentPosts = Range(sent.first)
          /\ \A id \in DealIDs : sent.tries[id] = 0
  /\ (sent.polls = 2 /\ PollDone
        /\ Range(sent.first) \subseteq Range(sent.listed)
        /\ Cardinality(Range(sent.listed) \ Range(sent.first)) = 1)
       => sent.tried = Range(sent.listed) \ Range(sent.first)

\* The statement of C3 restricted to a first poll that lists at least one
\* deal (the case the code handles as the claim says).
C3_NonEmptyFirstPoll ==
  Len(sent.first) >= 1 => C3_FirstPollThenOneNew

\* C4: in steady state a deal ID is marked only after sendDeal succeeded for
\* it (every tracked ID was bulk-marked at initialization or delivered); a
\* failed delivery leaves the ID out of the tracker; and in every poll that
\* runs the loop, each listed deal examined so far is in the tracker or had
\* its delivery attempted in this poll, so a deal whose delivery failed is
\* attempted again by the next poll that lists it.
C4_MarkedOnlyAfterDelivery ==
  /\ \A id \in DOMAIN sentPosts : id \in sent.bulk \/ sent.count[id] >= 1
  /\ (routine.pc = "loop" /\ sent.last \in {"detail_error", "send_error"})
       => /\ routine.deals[routine.idx - 1] \notin DOMAIN sentPosts
          /\ routine.deals[routine.idx - 1] \in sent.tried
  /\ routine.pc = "loop"
       => \A i \in 1..(routine.idx - 1) :
            routine.deals[i] \in DOMAIN sentPosts \/ routine.deals[i] \in sent.tried
  /\ \A id \in sent.tried : sent.tries[id] >= 1

\* C4 witness: a deal whose first delivery failed has been delivered by a
\* later attempt and only then marked.
C4_Witness ==
  /\ sent.last = "sent"
  /\ \E id \in DealIDs :
       /\ routine.pc = "loop" /\ routine.deals[routine.idx - 1] = id
       /\ sent.tries[id] = 2 /\ sent.count[id] = 1
       /\ id \notin sent.bulk
       /\ id \in DOMAIN sentPosts

\* C5: a deal ID that was bulk-marked at initialization or already delivered
\* is never delivered again.
C5_NeverDeliveredAgain ==
  \A id \in DealIDs : (IF id \in sent.bulk THEN 1 ELSE 0) + sent.count[id] <= 1

\* C13: once the tracker is initialized, the number of tracked deal IDs is at
\* most maxCacheSize in every reachable state: after the bulk population,
\* after every poll's bookkeeping and after every individual marking.
C13_TrackerAtMostMaxSize ==
  Size(sentPosts) <= maxCacheSize

\* C14: when a poll whose catalog fetch succeeded starts its bookkeeping with
\* more than maxCacheSize tracked IDs, the
\* cleanup removes exactly floor(size * cleanupPercent) entries and changes
\* no other, and every removed entry was marked no later than every retained
\* one; when a poll starts with at most maxCacheSize tracked IDs, no entry is
\* removed.
C14_CleanupRemovesOldestHalf ==
  [][ (now' # now /\ sent'.last \in {"bulk", "steady", "cleanup"})
        => LET gone == DOMAIN sentPosts \ DOMAIN sentPosts'
               n == Cardinality(gone)
           IN IF Size(sentPosts) > maxCacheSize
              THEN /\ CleanupDen * n <= Size(sentPosts) * CleanupNum
                   /\ Size(sentPosts) * CleanupNum < CleanupDen * (n + 1)
                   /\ DOMAIN sentPosts' = DOMAIN sentPosts \ gone
                   /\ \A y \in DOMAIN sentPosts' : sentPosts'[y] = sentPosts[y]
                   /\ \A x \in gone, y \in DOMAIN sentPosts' : sentPosts[x] <= sentPosts[y]
              ELSE /\ gone = {}
                   /\ \A y \in DOMAIN sentPosts : sentPosts'[y] = sentPosts[y]
    ]_vars

\* C14 witness: a poll has just cleaned up an oversized tracker and kept
\* entries marked at different times.
C14_Witness ==
  /\ sent.last = "cleanup"
  /\ routine.pc = "loop"
  /\ routine.idx = 1
  /\ \E x, y \in DOMAIN sentPosts : sentPosts[x] < sentPosts[y]

\* C20: the tracker becomes initialized on the very first successful poll,
\* once and for all: deals are bulk-marked without a delivery attempt on that
\* first successful poll only, and on every later successful poll the loop
\* runs, so that each listed deal is in the tracker or has its delivery
\* attempted.
C20_BulkMarkOnFirstPollOnly ==
  /\ sent.bulk \subseteq Range(sent.first)
  /\ (sent.polls >= 2 /\ PollDone /\ sent.listed # <<>>)
       => /\ sent.last = "returned"
          /\ \A id \in Range(sent.listed) : id \in DOMAIN sentPosts \/ id \in sent.tried

\* C21: a successful poll that lists no deal changes nothing: the tracked
\* IDs and their timestamps are as before the poll and nothing is delivered,
\* whether the tracker is empty or not and whatever its size.
C21_EmptyPollChangesNothing ==
  [][ (now' # now /\ sent'.last \in {"bulk", "steady", "cleanup"} /\ sent'.listed = <<>>)
        => /\ sentPosts' = sentPosts
           /\ sent'.count = sent.count
           /\ sent'.tries = sent.tries
    ]_vars

\* C22: a poll whose catalog fetch fails leaves the tracker as it was (no
\* marking, no initialization, no cleanup), delivers nothing, and leaves the
\* routine waiting for the next tick.
C22_PollErrorChangesNothing ==
  [][ (now' # now /\ sent'.last = "poll_error")
        => /\ sentPosts' = sentPosts
           /\ sent'.count = sent.count
           /\ sent'.tries = sent.tries
           /\ sent'.bulk = sent.bulk
           /\ sent'.polls = sent.polls
           /\ routine' = Waiting
           /\ (now' < MaxPolls => ENABLED PollStart(<<>>))
    ]_vars

\* C22 witness: the fetch has just failed while the tracker holds more than
\* maxCacheSize IDs, and the routine can poll again.
C22_Witness ==
  /\ sent.last = "poll_error"
  /\ Size(sentPosts) > maxCacheSize
  /\ routine.pc = "wait"
  /\ now < MaxPolls

\* C39: once the tracker is non-empty it never becomes empty again: no
\* cleanup pass removes all entries (a pass runs on more than maxCacheSize
\* entries and removes fewer than it finds) and no other step deletes an
\* entry, so the bulk-marking branch of initializeDealsCache is never taken
\* again after the tracker has been populated.
C39_NeverEmptyAgain ==
  [][ /\ Size(sentPosts) > 0
        => /\ Size(sentPosts') > 0
           /\ sent'.bulk = sent.bulk
           /\ (now' # now /\ sent'.last # "poll_error")
                => sent'.last \in {"steady", "cleanup"}
      /\ (DOMAIN sentPosts \ DOMAIN sentPosts' # {})
        => /\ sent'.last = "cleanup"
           /\ Size(sentPosts) > maxCacheSize
           /\ Cardinality(DOMAIN sentPosts \ DOMAIN sentPosts') < Size(sentPosts)
    ]_vars

\* C39 witness: a cleanup pass has just run on a tracker that was populated
\* by bulk marking, and entries remain.
C39_Witness ==
  /\ sent.last = "cleanup"
  /\ sent.bulk # {}
  /\ Size(sentPosts) > 0
  /\ Size(sentPosts) < maxCacheSize + 1

\* ------------------------------------------------------------------------
\* Properties of eviction in both structures (checked under SpecEviction)

\* C40: eviction is never attempted on an empty structure. In a Set,
\* removeOldest runs only when the map still holds at least maxSize (so at
\* least one) entries after cleanupExpired, and removes min(cleanupN, len) of
\* them; in a poll, cleanupOldEntries runs only when the tracker holds more
\* than maxCacheSize entries; neither removes more entries than are present.
C40_EvictionNeverOnEmpty ==
  [][ /\ Took({"Set", "FetchSet"})
           => LET d1 == cleanupExpired(data, now)
                  more == ev'.evicted \ ExpiredKeys(data, now)
              IN /\ more # {} => Size(data) >= maxSize /\ Size(d1) >= maxSize
                 /\ (Size(data) >= maxSize /\ Size(d1) >= maxSize)
                      => /\ Size(d1) >= 1
                         /\ Cardinality(more) = Min(cleanupN, Size(d1))
                 /\ more \subseteq DOMAIN d1
                 /\ ev'.evicted \subseteq DOMAIN data
      /\ (now' # now /\ sent'.last = "cleanup")
           => /\ Size(sentPosts) > maxCacheSize
              /\ Cardinality(DOMAIN sentPosts \ DOMAIN sentPosts') = removeCount(sentPosts)
              /\ removeCount(sentPosts) <= Size(sentPosts)
      /\ (DOMAIN sentPosts \ DOMAIN sentPosts' # {})
           => Size(sentPosts) > maxCacheSize /\ sent'.last = "cleanup"
    ]_vars

\* C40 witness: in a behaviour about TTLCache, a Set on a full cache has just
\* removed an unexpired entry by removeOldest (up to time ttl no entry has
\* expired) and the cache is full again.
C40_Witness ==
  /\ serial = [part |-> "TTLCache"]
  /\ ev.kind \in {"Set", "FetchSet"}
  /\ Cardinality(ev.evicted) = cleanupN
  /\ now <= ttl
  /\ Size(data) = maxSize

\* ------------------------------------------------------------------------
\* Properties of the ticker of SendDealsRoutine (checked under SpecTicker)

\* a call of checkAndSendDeals is in progress
Polling == routine.pc \in {"fetch", "loop"}

\* C31: the poll runs once at start and then once per tick received: every
\* call of checkAndSendDeals but the first is started by a tick of its own,
\* a call starts only when no call is in progress (polls never overlap), and
\* after a call that failed at the catalog fetch the routine waits: the next
\* catalog fetch starts only by receiving a tick.
C31_OnePollPerTick ==
  /\ [](/\ routine.pc # "start" => serial.started = 1 + serial.received
        /\ routine.pc = "start" => serial.started = 0 /\ serial.received = 0
        /\ serial.received + serial.C <= now)
  /\ [][ /\ serial'.started # serial.started
              => /\ ~Polling
                 /\ routine'.pc = "fetch"
                 /\ serial'.started = serial.started + 1
                 /\ routine.pc = "wait"
                      => serial.C = 1 /\ serial'.C = 0
                           /\ serial'.received = serial.received + 1
         /\ (routine.pc = "fetch" /\ sent'.last = "poll_error" /\ routine' # routine)
              => /\ routine' = Waiting
                 /\ serial'.started = serial.started
                 /\ serial'.received = serial.received
    ]_vars

\* C31 witness: a poll failed at the catalog fetch, the routine waited for
\* the next tick, and the poll started by that tick is fetching the catalog.
C31_Witness ==
  /\ routine.pc = "fetch"
  /\ serial.failed
  /\ serial.started >= 2
  /\ serial.C = 0

\* ------------------------------------------------------------------------
\* Properties of the tracker under concurrent calls (checked under
\* SpecTracker)

\* only part of the entries selected for removal has been deleted
PartlyCleaned ==
  /\ serial.left # <<>>
  /\ Len(serial.left) < Len(serial.gone)

\* the goroutines inside the critical section of isAlreadySent or markAsSent
Observers == {p \in Callers : caller[p].pc \in {"sentcheck", "mark"}}

\* C32: the cleanup pass runs under the exclusive lock from its first delete
\* to its last: while isAlreadySent or markAsSent is inside its critical
\* section no cleanup pass is under way, so the map it reads or writes is the
\* complete pre-cleanup or the complete post-cleanup map, and the goroutine
\* that is cleaning holds the exclusive lock.
C32_CleanupIsAtomic ==
  /\ Observers # {} => ~PartlyCleaned
  /\ Observers # {} => \A p \in Callers : caller[p].pc # "cleaning"
  /\ \A p \in Callers :
       caller[p].pc \in {"init", "cleaning", "initdone"}
         => mu.sentPosts.w = p /\ mu.sentPosts.r = {}
  /\ PartlyCleaned
       => /\ DOMAIN sentPosts = DOMAIN serial.pre \ (Range(serial.gone) \ Range(serial.left))
          /\ mu.sentPosts.w \in Callers

\* C32 witness: a cleanup pass has deleted one of the two entries it selected
\* while the other goroutine is waiting to mark and cannot enter.
C32_Witness ==
  /\ PartlyCleaned
  /\ \E p \in Callers : caller[p].pc = "marklock"
  /\ ~ENABLED (\E p \in Callers : TrackerMarkLock(p))

\* ------------------------------------------------------------------------
\* Properties of processSearchResults (checked under SpecFanout)

\* the goroutines whose buildInlineResult is in flight
InFlight == {i \in Tasks : task[i] = "work"}

\* C6: processSearchResults returns a list of exactly N results in which
\* result i is the one built from input item i, whatever order the tasks
\* complete in; no task writes a slot other than its own (at every moment a
\* slot is still empty or holds the result built from its own item).
C6_ResultsInInputOrder ==
  /\ Len(inlineResults) = Len(fan.items)
  /\ \A i \in Tasks :
       \/ inlineResults[i] = NilResult /\ task[i] \in {"new", "gate", "work"}
       \/ /\ inlineResults[i].Id = i - 1
          /\ inlineResults[i].item = fan.items[i]
          /\ task[i] \in {"release", "done", "exited"}
  /\ fan.pc = "returned"
       => \A i \in Tasks : inlineResults[i] # NilResult

\* C6 witness: the call has returned more than SemCap results, of different
\* items.
C6_Witness ==
  /\ fan.pc = "returned"
  /\ Len(inlineResults) > SemCap
  /\ \E i, j \in Tasks : inlineResults[i].item # inlineResults[j].item

\* C7: with K = SemCap < N, at no time are more than K invocations of
\* buildInlineResult in flight; sem counts the goroutines between their send
\* and their receive, and a goroutine at the gate proceeds only when sem is
\* not full.
C7_AtMostKInFlight ==
  /\ Cardinality(InFlight) <= SemCap
  /\ fan.sem = Cardinality({i \in Tasks : task[i] \in {"work", "release"}})
  /\ fan.sem <= SemCap

\* C7 witness: K invocations are in flight and another goroutine waits at
\* the full gate.
C7_Witness ==
  /\ Len(fan.items) > SemCap
  /\ Cardinality(InFlight) = SemCap
  /\ \E i \in Tasks : task[i] = "gate"

\* C18: processSearchResults returns only after every one of its N tasks has
\* completed: when it has returned, every goroutine has been started and has
\* run to its end (none is at the gate, running, or about to release), the
\* wait group is at zero and every result slot has been written; and as long
\* as some goroutine has not called wg.Done the call has not returned.
C18_ReturnsAfterAllTasks ==
  /\ fan.pc = "returned"
       => /\ fan.started = Len(fan.items)
          /\ fan.wg = 0
          /\ \A i \in Tasks : task[i] = "exited" /\ inlineResults[i] # NilResult
  /\ (\E i \in Tasks : task[i] \in {"gate", "work", "release", "done"})
       => fan.pc \in {"loop", "wait"} /\ fan.wg >= 1

\* C18 witness: the call has returned after all of more than SemCap tasks
\* exited, one of which got no details for its item.
C18_Witness ==
  /\ fan.pc = "returned"
  /\ Len(fan.items) > SemCap
  /\ \A i \in Tasks : task[i] = "exited"
  /\ \E i \in Tasks : inlineResults[i].info = "none"

\* C19: a failing or panicking work invocation does not abort its siblings:
\* no task is ever stopped before it has run to completion because another
\* task's buildInlineResult failed or panicked, the call is never cut short,
\* and when it has returned every slot is filled, the slot of a task whose
\* detail lookup failed included (checked under SpecFanoutPanic).
C19_SiblingsNotAborted ==
  /\ \A i \in Tasks : task[i] # "aborted"
  /\ fan.pc # "crashed"
  /\ fan.pc = "returned" => \A i \in Tasks : inlineResults[i] # NilResult

\* the tasks holding a slot of sem
Holding == {i \in Tasks : task[i] \in {"work", "release"}}

\* C37: if every buildInlineResult terminates, processSearchResults
\* terminates for every N >= 0 (N = 0 and N > SemCap included): the call
\* returns, no task waits forever at the gate, sem holds exactly the slots of
\* the tasks between their acquire and their release (each slot acquired is
\* released once), and when the call has returned sem holds no slot (checked
\* under SpecFanoutFair).
C37_Terminates ==
  /\ <>(fan.pc = "returned")
  /\ \A i \in 1..MaxItems :
       (i \in Tasks /\ task[i] = "gate") ~> (i \in Tasks /\ task[i] = "exited")
  /\ [](/\ fan.sem = Cardinality(Holding)
        /\ fan.sem <= SemCap
        /\ fan.pc = "returned" => fan.sem = 0 /\ Holding = {})

\* C37 witness: the call has returned with more than SemCap tasks, all of
\* them exited, and sem is empty.
C37_Witness ==
  /\ fan.pc = "returned"
  /\ Len(fan.items) > SemCap
  /\ fan.sem = 0
  /\ \A i \in Tasks : task[i] = "exited"

\* ------------------------------------------------------------------------
\* Properties of HandleCallbackQuery (checked under SpecRouter)

\* the number written by the digits s, read from the right
RECURSIVE Decimal(_)
Decimal(s) ==
  IF s = <<>> THEN 0
  ELSE 10 * Decimal(SubSeq(s, 1, Len(s) - 1)) + DigitVal(s[Len(s)])

\* s is the text of a user ID: digits, possibly after a minus sign
IsUserIDText(s) ==
  LET digits == IF s # <<>> /\ s[1] = "-" THEN Tail(s) ELSE s
  IN digits # <<>> /\ \A i \in 1..Len(digits) : digits[i] \in Digits

UserIDOf(s) == IF s[1] = "-" THEN 0 - Decimal(Tail(s)) ELSE Decimal(s)

\* the data of the request is a recognized prefix, then a payload with exactly
\* one "_" followed by the text of a user ID that is not the sender's
ForeignToken ==
  \E p \in DOMAIN prefixes :
    /\ HasPrefix(req.data, p)
    /\ LET payload == TrimPrefix(req.data, p)
       IN \E i \in 1..Len(payload) :
            /\ payload[i] = "_"
            /\ \A j \in 1..Len(payload) : payload[j] = "_" => j = i
            /\ IsUserIDText(SubSeq(payload, i + 1, Len(payload)))
            /\ UserIDOf(SubSeq(payload, i + 1, Len(payload))) # req.from

\* C2: for a callback token with a recognized prefix and a well-formed payload
\* whose embedded user ID differs from the acting user's, HandleCallbackQuery
\* answers "This is not for you" and does nothing else: no view builder is
\* dispatched to, the app-details cache is neither read nor written, no
\* upstream fetch is made and no message is edited, whatever the action kind
\* and the subject ID.
C2_ForeignTokenRejected ==
  ForeignToken =>
    /\ h.pc \in {"start", "done"}
    /\ out.answers = IF h.pc = "done" THEN <<"This is not for you">> ELSE <<>>
    /\ out.view = "none"
    /\ out.cache = 0
    /\ out.fetch = 0
    /\ out.edits = 0
    /\ data = req.cache0
    /\ caller[Handler] = Idle
    /\ ev.kind = "Init"

\* C2 witness: a Back token of another user for an app whose details are in
\* the cache has been handled and answered with the notice.
C2_Witness ==
  /\ ForeignToken
  /\ h.pc = "done"
  /\ h.cb.Type = "Back"
  /\ h.cb.AppID = CachedApp
  /\ CachedApp \in DOMAIN data
  /\ out.answers = <<"This is not for you">>

\* the positions of "_" in s
SepAt(s) == {i \in 1..Len(s) : s[i] = "_"}

\* the data of the request starts with a recognized prefix
RecognizedPrefix == \E p \in DOMAIN prefixes : HasPrefix(req.data, p)

\* the data of the request is a recognized prefix, then a payload that does
\* not have exactly two fields or whose second field is not a user ID
MalformedToken ==
  \E p \in DOMAIN prefixes :
    /\ HasPrefix(req.data, p)
    /\ LET payload == TrimPrefix(req.data, p)
       IN \/ Cardinality(SepAt(payload)) # 1
          \/ \E i \in SepAt(payload) : ~IsUserIDText(SubSeq(payload, i + 1, Len(payload)))

\* C15: a callback token with a recognized prefix and a malformed payload is
\* a decode failure (parseCallbackData returns an error) that is reported to
\* the user who pressed the button: when the handler is done with it, it has
\* answered the callback query.
C15_MalformedTokenReported ==
  (MalformedToken /\ h.pc = "done") => (h.cb.err /\ out.answers # <<>>)

\* C16: a callback token whose prefix is not a recognized one decodes to
\* Unknown with no error, and the handler does nothing for it: no answer, no
\* notice, no cache access, no fetch, no edit, whatever follows the prefix
\* and whoever pressed the button.
C16_UnknownPrefixIgnored ==
  ~RecognizedPrefix =>
    /\ h.pc \in {"start", "done"}
    /\ h.pc = "done" => (h.cb.Type = "Unknown" /\ ~h.cb.err)
    /\ out = NoOutput
    /\ data = req.cache0
    /\ caller[Handler] = Idle
    /\ ev.kind = "Init"

\* C16 witness: the handler is done with a token of an unknown prefix whose
\* payload is well formed and carries the ID of the user who pressed.
C16_Witness ==
  /\ h.pc = "done"
  /\ req.data = <<"x", ":", "1", "_", "1">>
  /\ req.from = 1
  /\ CachedApp \in DOMAIN data
  /\ out.answers = <<>>

\* the handler is done with a token that decoded to a view action whose
\* user ID is the sender's
AuthorizedDone ==
  /\ h.pc = "done"
  /\ ~h.cb.err
  /\ h.cb.Type \in {"Details", "Requirements", "HLTB", "Back"}
  /\ authorized(h.cb, req.from)

\* the answers that only announce that work has started
ProgressNotices == {"Fetching...", "Going back..."}

\* C23: an unauthorized press always shows the rejection notice, and when an
\* authorized, recognized action fails (the detail fetch fails or the view
\* builder returns no message, so that no view was built) the user who
\* pressed gets a visible failure outcome: an answer other than the progress
\* notice, or an edit of the message; in neither case is a view delivered.
C23_FailureVisible ==
  /\ (h.pc = "done" /\ ~h.cb.err /\ h.cb.Type # "Unknown" /\ ~authorized(h.cb, req.from))
       => /\ out.answers = <<"This is not for you">>
          /\ out.view = "none"
          /\ out.edits = 0
  /\ (AuthorizedDone /\ out.view = "none")
       => \/ \E i \in DOMAIN out.answers : out.answers[i] \notin ProgressNotices
          \/ out.edits > 0

\* C24: every callback token on the keyboard of a view built while handling
\* an authorized token decodes, without error, to the subject ID and the user
\* ID of the token being handled (so neither changes along a chain of
\* forward and back navigation).
C24_FollowUpsKeepIDs ==
  \A tok \in out.minted :
    \A cb \in parseCallbackData(tok) :
      /\ ~cb.err
      /\ cb.AppID = h.cb.AppID
      /\ cb.UserID = h.cb.UserID

\* the follow-up tokens of the Details, Requirements and HLTB views keep the
\* IDs whatever the subject ID is; those of the Back view keep them when the
\* subject ID is the decimal text of an integer
C24_ForwardViewsKeepIDs ==
  (h.cb.Type # "Back" \/ h.cb.AppID = FormatInt(Atoi(h.cb.AppID)))
    => C24_FollowUpsKeepIDs

\* an authorized Back token whose cache.Get missed (the key absent, or its
\* entry expired), the handler being past that Get
BackMissed ==
  /\ h.cb.Type = "Back"
  /\ ~h.cb.err
  /\ authorized(h.cb, req.from)
  /\ ~out.cached
  /\ h.pc \notin {"start", "back", "backget"}

\* C29: when an authorized Back misses the cache, the handler goes on to
\* GetFullSteamAppDetails, which fetches the details; when that fetch
\* fails the handler ends with no view built, no message edited and nothing
\* cached; when it succeeds the details are cached and the search view is
\* built and handed to sendCallbackResponse, with no further fetch.
C29_BackMissRefetches ==
  BackMissed =>
    /\ h.pc = "done" => out.fetch = 1
    /\ (h.pc = "done" /\ h.ret = "appinfo")
         => /\ out.view = "none"
            /\ out.edits = 0
            /\ out.minted = {}
            /\ h.cb.AppID \notin DOMAIN data
    /\ (h.pc = "done" /\ h.ret # "appinfo")
         => /\ out.view = "search"
            /\ out.edits <= 1
            /\ h.cb.AppID \in DOMAIN data
    /\ out.answers = <<"Going back...">>

\* C29 witness: an authorized Back missed the cache, fetched the details and
\* edited the message with the search view.
C29_Witness ==
  /\ BackMissed
  /\ h.pc = "done"
  /\ out.fetch = 1
  /\ out.view = "search"
  /\ out.edits = 1

\* the data of the request starts with the legacy prefix "more_details:"
LegacyToken ==
  HasPrefix(req.data, <<"m", "o", "r", "e", "_", "d", "e", "t", "a", "i", "l", "s", ":">>)

\* the same payload behind the prefix "details:"
DetailsTwin ==
  <<"d", "e", "t", "a", "i", "l", "s", ":">>
    \o TrimPrefix(req.data, <<"m", "o", "r", "e", "_", "d", "e", "t", "a", "i", "l", "s", ":">>)

\* C30: "more_details:<payload>" is handled as "details:<payload>": both
\* decode to one and the same CallbackData (type Details, same subject ID,
\* user ID and error), so that the handler, which goes by the decoded data
\* and the sender alone, drops, rejects or dispatches both alike: dropped on
\* a decode error, rejected for another user, else sent to the Details view.
C30_LegacyPrefixIsDetails ==
  LegacyToken =>
    /\ parseCallbackData(req.data) = parseCallbackData(DetailsTwin)
    /\ Cardinality(parseCallbackData(req.data)) = 1
    /\ h.pc # "start"
         => /\ h.cb \in parseCallbackData(DetailsTwin)
            /\ h.cb.Type = "Details"
            /\ h.cb.err => h.pc = "done" /\ out = NoOutput
            /\ (~h.cb.err /\ ~authorized(h.cb, req.from))
                 => h.pc = "done" /\ out.answers = <<"This is not for you">>
                      /\ out.view = "none"
            /\ (~h.cb.err /\ authorized(h.cb, req.from))
                 => /\ out.answers = <<"Fetching...">>
                    /\ h.ret = "route"
                    /\ out.view \in {"none", "details"}
                    /\ out.view = "details" => out.minted = replyMarkup(h.cb)

\* C30 witness: a legacy token of the sender has been dispatched to the
\* Details view and the message edited.
C30_Witness ==
  /\ LegacyToken
  /\ h.pc = "done"
  /\ out.view = "details"
  /\ out.edits = 1

\* the subjects the bot embeds in a token: the user-supplied username for
\* "mysteam:", the decimal text of an app ID for the other prefixes
MintedSubjects(prefix) ==
  IF prefixes[prefix] = "MySteam"
  THEN UNION {[1..n -> PayloadChars] : n \in 1..(MaxPayload - 2)}
  ELSE {FormatInt(n) : n \in 1..2}

\* C34: token round trip: for every token minted as
\* "<prefix><subject>_<userID>" (an app ID for details, requirements, hltb
\* and back; a username, also one that contains "_", for mysteam),
\* parseCallbackData succeeds and returns the kind, the subject and the user
\* ID that were embedded.
C34_TokenRoundTrip ==
  \A prefix \in DOMAIN prefixes \ {PrefixNamed("m", "o")} :
    \A subject \in MintedSubjects(prefix), userID \in UserIDs :
      (h.pc # "start" /\ req.data = Sprintf(prefix, subject, userID))
        => h.cb = CallbackData(prefixes[prefix], subject, userID, FALSE)

\* the view the view builder of a callback type produces
ViewOf(type) ==
  CASE type = "Details" -> "details"
    [] type = "Requirements" -> "requirements"
    [] type = "HLTB" -> "hltb"
    [] type = "Back" -> "search"
    [] OTHER -> "profile"

\* the state Routed: the token decoded to a recognized kind, the sender is
\* the user the token was minted for, and (for the views built from app
\* details) the handler's last read of the details succeeded
Routed ==
  /\ h.cb \in parseCallbackData(req.data)
  /\ ~h.cb.err
  /\ h.cb.Type # "Unknown"
  /\ authorized(h.cb, req.from)
  /\ h.cb.Type # "MySteam"
       => /\ ev.p = Handler
          /\ ev.kind \in {"GetHit", "FetchSet"}
          /\ ev.ok
          /\ ev.key = h.cb.AppID

\* C35: a callback interaction edits the message at most once, and a view is
\* delivered only in state Routed: after the token decoded to a recognized
\* kind, the authorization test passed and the details the view builder
\* needs were obtained. A callback that did not decode, came from another
\* user, or whose fetch of the details failed delivers no view. (h.ret is
\* "respond" once handleBackCallback holds the details and is reading them
\* again through GetSteamAppInfo, whose error it ignores.)
C35_ViewOnlyWhenRouted ==
  /\ out.edits <= 1
  /\ out.view # "none"
       => /\ Routed
          /\ h.pc = "done"
          /\ out.view = ViewOf(h.cb.Type)
  /\ (h.pc = "done" /\ (h.cb.err \/ h.cb.Type = "Unknown" \/ ~authorized(h.cb, req.from)))
       => out.view = "none" /\ out.edits = 0
  /\ (h.pc = "done" /\ ev.p = Handler /\ ev.kind = "FetchErr" /\ h.ret # "respond")
       => out.view = "none" /\ out.edits = 0

\* C35 witness: an authorized "hltb:" callback fetched the details, built
\* its view and edited the message once.
C35_Witness ==
  /\ out.view = "hltb"
  /\ out.edits = 1
  /\ ev.kind = "FetchSet"
  /\ h.pc = "done"

\* the entries of the prefix table the data of the request matches
Matching == {p \in DOMAIN prefixes : HasPrefix(req.data, p)}

\* C38: token decoding is deterministic: no recognized prefix is a prefix of
\* another, no data matches more than one entry of the prefix table
\* ("details:" does not match data that starts with "more_details:"), so
\* parseCallbackData has one result whatever the order in which the table is
\* iterated, and the handler's decoding is that result.
C38_DecodingDeterministic ==
  /\ \A p, q \in DOMAIN prefixes : p # q => ~HasPrefix(p, q)
  /\ Cardinality(Matching) <= 1
  /\ Cardinality(parseCallbackData(req.data)) = 1
  /\ h.pc # "start" => parseCallbackData(req.data) = {h.cb}

\* C38 witness: data that starts with "more_details:" has been decoded: it
\* matches that entry of the table alone.
C38_Witness ==
  /\ h.pc # "start"
  /\ Matching = {PrefixNamed("m", "o")}
  /\ ~h.cb.err
  /\ h.cb.Type = "Details"

\* ------------------------------------------------------------------------
\* Properties of HandleCallbackQuery sharing the cache (checked under
\* SpecRouterShared)

\* C17: when an authorized Back action finds the subject's details in the
\* cache (cache.Get returns ok), fetchSteamAppDetails is not invoked during
\* that Back event, also while other goroutines Get and Set entries of the
\* same cache. (On the Back path out.fetch counts the calls of
\* fetchSteamAppDetails and nothing else.)
C17_BackHitNoRefetch ==
  (h.cb.Type = "Back" /\ out.cached) => out.fetch = 0

====
